---- MODULE Spec2Model ----
(***************************************************************************)
(* Silk: atomic class generation and deduplication.                        *)
(*                                                                         *)
(* Strings are sequences of UTF-16 code units (what charCodeAt returns).   *)
(* A 32-bit word is a pair <<hi, lo>> of 16-bit halves, because the        *)
(* products of Math.imul do not fit the integers of the model checker.     *)
(***************************************************************************)
EXTENDS Integers, Sequences, FiniteSets, TLC

(***************************************************************************)
(* String helpers                                                          *)
(***************************************************************************)
RECURSIVE Flatten(_)
Flatten(ss) == IF ss = <<>> THEN <<>> ELSE Head(ss) \o Flatten(Tail(ss))

Range(s) == {s[i] : i \in 1..Len(s)}

RECURSIVE SumSeq(_)
SumSeq(s) == IF s = <<>> THEN 0 ELSE Head(s) + SumSeq(Tail(s))

\* String.prototype.slice(from) with a 0-based start index
SliceFrom(s, from) == SubSeq(s, from + 1, Len(s))

\* String.prototype.indexOf(pat, from): 0-based index of the first occurrence, -1 if none
IndexOf(s, pat, from) ==
  LET hits == {i \in from..(Len(s) - Len(pat)) : SubSeq(s, i + 1, i + Len(pat)) = pat}
  IN IF hits = {} THEN -1 ELSE CHOOSE i \in hits : \A j \in hits : i <= j

\* String.prototype.includes(pat)
Includes(s, pat) == IndexOf(s, pat, 0) >= 0

\* String.prototype.split(sep) for a non-empty separator
RECURSIVE Split(_, _)
Split(s, sep) ==
  LET i == IndexOf(s, sep, 0)
  IN IF i < 0 THEN <<s>>
     ELSE <<SubSeq(s, 1, i)>> \o Split(SliceFrom(s, i + Len(sep)), sep)

\* the class \s of a JavaScript regular expression, over the characters used here
IsSpace(c) == c \in {9, 10, 13, 32}

\* String.prototype.trim()
RECURSIVE TrimStart(_)
TrimStart(s) == IF s # <<>> /\ IsSpace(Head(s)) THEN TrimStart(Tail(s)) ELSE s

RECURSIVE TrimEnd(_)
TrimEnd(s) ==
  IF s # <<>> /\ IsSpace(s[Len(s)]) THEN TrimEnd(SubSeq(s, 1, Len(s) - 1)) ELSE s

Trim(s) == TrimEnd(TrimStart(s))

(***************************************************************************)
(* 32-bit arithmetic on <<hi, lo>> pairs                                   *)
(***************************************************************************)
TwoPow16 == 65536

RECURSIVE Xor16(_, _, _)
Xor16(a, b, n) ==
  IF n = 0 THEN 0
  ELSE (((a % 2) + (b % 2)) % 2) + 2 * Xor16(a \div 2, b \div 2, n - 1)

Xor32(a, b) == <<Xor16(a[1], b[1], 16), Xor16(a[2], b[2], 16)>>

\* the 32-bit product of two 16-bit numbers, as <<hi, lo>>
Mul16(x, y) ==
  LET t1  == (x % 256) * y
      t2  == (x \div 256) * y
      low == t1 + (t2 % 256) * 256
  IN <<((t2 \div 256) + (low \div TwoPow16)) % TwoPow16, low % TwoPow16>>

\* Math.imul(a, b): the low 32 bits of the product
Imul(a, b) ==
  LET ll == Mul16(a[2], b[2])
      hl == Mul16(a[1], b[2])
      lh == Mul16(a[2], b[1])
  IN <<(ll[1] + hl[2] + lh[2]) % TwoPow16, ll[2]>>

\* h >>> 13
Shr13(a) == <<a[1] \div 8192, (a[1] % 8192) * 8 + (a[2] \div 8192)>>

\* Number.prototype.toString(36) of the unsigned word, as digit values 0..35
RECURSIVE Digits36(_)
Digits36(a) ==
  LET qh  == a[1] \div 36
      mid == (a[1] % 36) * TwoPow16 + a[2]
      ql  == mid \div 36
      d   == mid % 36
  IN IF qh = 0 /\ ql = 0 THEN <<d>> ELSE Digits36(<<qh, ql>>) \o <<d>>

\* the character of a base-36 digit: '0'..'9', 'a'..'z'
DigitChar(d) == IF d < 10 THEN 48 + d ELSE 87 + d

ToString36(a) == [i \in 1..Len(Digits36(a)) |-> DigitChar(Digits36(a)[i])]

(***************************************************************************)
(* The hash shared by the transformer, the runtime and the generator       *)
(***************************************************************************)
MurmurSeed == <<23505, 59797>>   \* 0x5bd1e995

\* one round: h = Math.imul(h ^ c, 0x5bd1e995); h ^= h >>> 13
MurmurStep(h, c) ==
  LET m == Imul(Xor32(h, <<0, c>>), MurmurSeed)
  IN Xor32(m, Shr13(m))

\* the comparison makes the round's value be computed before the next round starts
RECURSIVE MurmurFrom(_, _)
MurmurFrom(h, str) ==
  IF str = <<>> THEN h
  ELSE LET n == MurmurStep(h, Head(str))
       IN IF n[1] >= 0 THEN MurmurFrom(n, Tail(str)) ELSE n

murmurHash2(str) == ToString36(MurmurFrom(<<0, 0>>, str))

(***************************************************************************)
(* Bounds and the declarations the registries are driven with              *)
(***************************************************************************)
MaxOps == 4        \* operations performed on the registries in one run
NumWorkers == 2    \* independently constructed registries beside the combining one

Workers == 1..NumWorkers
Combiner == NumWorkers + 1
Regs == 1..Combiner

S_backgroundColor  == <<98, 97, 99, 107, 103, 114, 111, 117, 110, 100, 67, 111, 108, 111, 114>>
S_background_color == <<98, 97, 99, 107, 103, 114, 111, 117, 110, 100, 45, 99, 111, 108, 111, 114>>
S_red      == <<114, 101, 100>>
S_sp_red   == <<32, 114, 101, 100>>
S_left     == <<108, 101, 102, 116>>
S_1602pct  == <<49, 54, 48, 50, 37>>
S_right    == <<114, 105, 103, 104, 116>>
S_812rem   == <<56, 49, 50, 114, 101, 109>>
S_color    == <<99, 111, 108, 111, 114>>
S_empty    == <<>>

\* registerAtom(property, value) arguments; 1 and 2 are one declaration in two
\* spellings, 3 and 4 hash to the same 32-bit value, 5 has an empty value
Decls ==
  << [property |-> S_backgroundColor,  value |-> S_red],
     [property |-> S_background_color, value |-> S_sp_red],
     [property |-> S_left,             value |-> S_1602pct],
     [property |-> S_right,            value |-> S_812rem],
     [property |-> S_color,            value |-> S_empty] >>

DeclIds == 1..Len(Decls)

(***************************************************************************)
(* JavaScript Map: a sequence of <<key, value>> entries in insertion order *)
(***************************************************************************)
\* undefined, as a value no string is equal to
Undefined == <<-1>>

MapHas(m, k) == \E i \in 1..Len(m) : m[i][1] = k

MapGet(m, k) ==
  IF MapHas(m, k) THEN m[CHOOSE i \in 1..Len(m) : m[i][1] = k][2] ELSE Undefined

\* set() keeps the position of an existing key and appends a new one
MapSet(m, k, v) ==
  IF MapHas(m, k) THEN [i \in 1..Len(m) |-> IF m[i][1] = k THEN <<k, v>> ELSE m[i]]
  ELSE Append(m, <<k, v>>)

\* new Map(entries): later entries overwrite earlier ones with the same key
RECURSIVE MapFrom(_, _)
MapFrom(m, entries) ==
  IF entries = <<>> THEN m
  ELSE MapFrom(MapSet(m, Head(entries)[1], Head(entries)[2]), Tail(entries))

MapValues(m) == [i \in 1..Len(m) |-> m[i][2]]

\* truthiness of a string-or-undefined
Truthy(v) == v # Undefined /\ v # <<>>

(***************************************************************************)
(* Hasher/Namer, compact mode                                              *)
(***************************************************************************)
GuardChar == 95   \* '_'

\* the encoded hash, preceded by a guard character when it starts with a digit
ShortClassNameOf(styleId) ==
  LET enc == murmurHash2(styleId)
  IN IF enc[1] >= 48 /\ enc[1] <= 57 THEN <<GuardChar>> \o enc ELSE enc

(***************************************************************************)
(* AtomicCSSRegistry                                                       *)
(***************************************************************************)
Sep == <<58, 58>>   \* '::'

\* property.replace(/[A-Z]/g, (m) => `-${m.toLowerCase()}`)
RECURSIVE KebabCase(_)
KebabCase(s) ==
  IF s = <<>> THEN <<>>
  ELSE IF Head(s) >= 65 /\ Head(s) <= 90
       THEN <<45, Head(s) + 32>> \o KebabCase(Tail(s))
       ELSE <<Head(s)>> \o KebabCase(Tail(s))

\* s.replace(/\s+/g, ' ')
RECURSIVE CollapseSpaces(_)
CollapseSpaces(s) ==
  IF s = <<>> THEN <<>>
  ELSE IF IsSpace(Head(s))
       THEN <<32>> \o CollapseSpaces(TrimStart(s))
       ELSE <<Head(s)>> \o CollapseSpaces(Tail(s))

\* a normalization that leaves the property name as written
normalizeAtomKey_asWritten(property, value) ==
  property \o Sep \o CollapseSpaces(Trim(value))

normalizeAtomKey(property, value) ==
  KebabCase(property) \o Sep \o CollapseSpaces(Trim(value))

AtomKeyOf(d) == normalizeAtomKey(Decls[d].property, Decls[d].value)

AtomKeys == {AtomKeyOf(d) : d \in DeclIds}

\* the names of the AtomKeys above are computed once; any other string is hashed on demand
ShortClassNames == [k \in AtomKeys |-> ShortClassNameOf(k)]

generateShortClassName(styleId) ==
  IF styleId \in AtomKeys THEN ShortClassNames[styleId] ELSE ShortClassNameOf(styleId)

NewRegistry == [atoms |-> <<>>, usage |-> <<>>, reverseMap |-> <<>>]

\* a registration that names a new atom after its position: a0, a1, ...
registerAtom_sequentialNames(self, property, value) ==
  LET atomKey == normalizeAtomKey(property, value)
      found   == MapGet(self.atoms, atomKey)
      usedBy  == IF MapHas(self.usage, found) THEN MapGet(self.usage, found) ELSE 0
      fresh   == <<97, 48 + Len(self.atoms)>>
  IN IF Truthy(found)
     THEN [reg |-> [self EXCEPT !.usage = MapSet(@, found, usedBy + 1)],
           ret |-> found]
     ELSE [reg |-> [atoms      |-> MapSet(self.atoms, atomKey, fresh),
                    usage      |-> MapSet(self.usage, fresh, 1),
                    reverseMap |-> MapSet(self.reverseMap, fresh, atomKey)],
           ret |-> fresh]

\* the registry after the call, and the class name the call returns
registerAtom(self, property, value) ==
  LET atomKey == normalizeAtomKey(property, value)
      found   == MapGet(self.atoms, atomKey)
      usedBy  == IF MapHas(self.usage, found) THEN MapGet(self.usage, found) ELSE 0
      fresh   == generateShortClassName(atomKey)
  IN IF Truthy(found)
     THEN [reg |-> [self EXCEPT !.usage =
                      MapSet(@, found, usedBy + 1)],
           ret |-> found]
     ELSE [reg |-> [atoms      |-> MapSet(self.atoms, atomKey, fresh),
                    usage      |-> MapSet(self.usage, fresh, 1),
                    reverseMap |-> MapSet(self.reverseMap, fresh, atomKey)],
           ret |-> fresh]

\* the rules pushed by the loop, in order; join('') is their concatenation
AtomicRules(self) ==
  LET ruleOf(entry) ==
        LET parts    == Split(entry[1], Sep)
            property == parts[1]
            value    == IF Len(parts) >= 2 THEN parts[2] ELSE <<>>
        IN IF property = <<>> \/ value = <<>> THEN <<>>
           ELSE << <<46>> \o entry[2] \o <<123>> \o property \o <<58>> \o value \o <<125>> >>
  IN Flatten([i \in 1..Len(self.atoms) |-> ruleOf(self.atoms[i])])

generateAtomicCSS(self) == Flatten(AtomicRules(self))

\* deduplicationRate and averageReuse are kept as hundredths: Math.round(x * 100)
getStats(self) ==
  LET totalUsage  == SumSeq(MapValues(self.usage))
      uniqueAtoms == Len(self.atoms)
      divisor     == IF uniqueAtoms = 0 THEN 1 ELSE uniqueAtoms
  IN [uniqueAtoms  |-> uniqueAtoms,
      totalUsage   |-> totalUsage,
      averageReuse |-> (200 * totalUsage + divisor) \div (2 * divisor)]

\* a reset that clears the atoms and leaves their usage counts
reset_keepsUsage(self) == [atoms |-> <<>>, usage |-> self.usage, reverseMap |-> <<>>]

reset(self) == [atoms |-> <<>>, usage |-> <<>>, reverseMap |-> <<>>]

export(self) == [atoms |-> self.atoms, usage |-> self.usage]

RECURSIVE RebuildReverse(_, _)
RebuildReverse(m, atoms) ==
  IF atoms = <<>> THEN m
  ELSE RebuildReverse(MapSet(m, Head(atoms)[2], Head(atoms)[1]), Tail(atoms))

\* an import that restores the atoms but not their usage counts
import_withoutUsage(self, data) ==
  [atoms      |-> MapFrom(<<>>, data.atoms),
   usage      |-> self.usage,
   reverseMap |-> RebuildReverse(<<>>, MapFrom(<<>>, data.atoms))]

import(self, data) ==
  [atoms      |-> MapFrom(<<>>, data.atoms),
   usage      |-> MapFrom(<<>>, data.usage),
   reverseMap |-> RebuildReverse(<<>>, MapFrom(<<>>, data.atoms))]

(***************************************************************************)
(* Class names of the Babel plugin and of the runtime                      *)
(***************************************************************************)
\* the string that is hashed: `${property}-${value}${variant}`
HashContent(property, value, variant) == property \o <<45>> \o value \o variant

\* a content that separates property and value with ':'
HashContent_colon(property, value, variant) == property \o <<58>> \o value \o variant

hashPropertyValue_colon(property, value, variant) ==
  murmurHash2(HashContent_colon(property, value, variant))

hashPropertyValue(property, value, variant) ==
  murmurHash2(HashContent(property, value, variant))

IsAlnum(c) == (c >= 48 /\ c <= 57) \/ (c >= 65 /\ c <= 90) \/ (c >= 97 /\ c <= 122)

ToLower(c) == IF c >= 65 /\ c <= 90 THEN c + 32 ELSE c

\* String(value).replace(/[^a-zA-Z0-9]/g, '').toLowerCase().slice(0, 10)
SanitizedValue(value) ==
  LET kept == SelectSeq(value, IsAlnum)
  IN [i \in 1..(IF Len(kept) < 10 THEN Len(kept) ELSE 10) |-> ToLower(kept[i])]

S_s    == <<115>>
S_silk == <<115, 105, 108, 107>>

\* a namer whose verbose names take their suffix from a hash of their own
generateClassNameBabel_ownVerboseHash(property, value, production, classPrefix, variant) ==
  LET hash == hashPropertyValue(property, value, variant)
      verboseHash == murmurHash2(property \o <<95>> \o value \o variant)
      shortHash == SubSeq(verboseHash, 1, IF Len(verboseHash) < 4 THEN Len(verboseHash) ELSE 4)
      devPrefix == IF classPrefix = Undefined THEN S_silk ELSE classPrefix
  IN IF production
     THEN (IF Truthy(classPrefix) THEN classPrefix ELSE S_s) \o hash
     ELSE IF variant # <<>>
          THEN devPrefix \o <<95>> \o variant \o <<95>> \o property \o <<95>>
                 \o SanitizedValue(value) \o <<95>> \o shortHash
          ELSE devPrefix \o <<95>> \o property \o <<95>>
                 \o SanitizedValue(value) \o <<95>> \o shortHash

generateClassNameBabel(property, value, production, classPrefix, variant) ==
  LET hash == hashPropertyValue(property, value, variant)
      shortHash == SubSeq(hash, 1, IF Len(hash) < 4 THEN Len(hash) ELSE 4)
      devPrefix == IF classPrefix = Undefined THEN S_silk ELSE classPrefix
  IN IF production
     THEN (IF Truthy(classPrefix) THEN classPrefix ELSE S_s) \o hash
     ELSE IF variant # <<>>
          THEN devPrefix \o <<95>> \o variant \o <<95>> \o property \o <<95>>
                 \o SanitizedValue(value) \o <<95>> \o shortHash
          ELSE devPrefix \o <<95>> \o property \o <<95>>
                 \o SanitizedValue(value) \o <<95>> \o shortHash

\* the runtime's (and the CLI's) name for a style id `${property}-${value}${variant}`
generateClassName(styleId, config) ==
  LET hash      == murmurHash2(styleId)
      dash      == IndexOf(styleId, <<45>>, 0)
      property  == IF dash < 0 THEN styleId ELSE SubSeq(styleId, 1, dash)
      value     == IF dash < 0 THEN <<>> ELSE SliceFrom(styleId, dash + 1)
      shortHash == SubSeq(hash, 1, IF Len(hash) < 4 THEN Len(hash) ELSE 4)
      devPrefix == IF config.classPrefix = Undefined THEN S_silk ELSE config.classPrefix
  IN IF config.production
     THEN IF config.shortClassNames
          THEN generateShortClassName(styleId)
          ELSE (IF Truthy(config.classPrefix) THEN config.classPrefix ELSE S_s) \o hash
     ELSE devPrefix \o <<95>> \o property \o <<95>> \o SanitizedValue(value) \o <<95>> \o shortHash

S_zIndex  == <<122, 73, 110, 100, 101, 120>>
S_z_index == <<122, 45, 105, 110, 100, 101, 120>>
S_1       == <<49>>
S_12      == <<49, 50>>
S_2xl     == <<50, 120, 108>>
S_xl      == <<120, 108>>
S_hover   == <<104, 111, 118, 101, 114>>
S_margin  == <<109, 97, 114, 103, 105, 110>>
S_0_auto  == <<48, 32, 97, 117, 116, 111>>
S_0__auto == <<48, 32, 32, 97, 117, 116, 111>>
S_x       == <<120>>

\* declarations handed to the namers: property, value, and the variant of the selector context
NameDecls ==
  << [property |-> S_zIndex,  value |-> S_1,       variant |-> S_2xl],
     [property |-> S_zIndex,  value |-> S_12,      variant |-> S_xl],
     [property |-> S_zIndex,  value |-> S_1,       variant |-> <<>>],
     [property |-> S_z_index, value |-> S_1,       variant |-> <<>>],
     [property |-> S_color,   value |-> S_red,     variant |-> S_hover],
     [property |-> S_color,   value |-> S_red,     variant |-> <<>>],
     [property |-> S_margin,  value |-> S_0_auto,  variant |-> <<>>],
     [property |-> S_margin,  value |-> S_0__auto, variant |-> <<>>] >>

NameDeclIds == 1..Len(NameDecls)

\* the classPrefix option: not set, or 'x'
ClassPrefixes == {Undefined, S_x}

\* everything the namers derive from one declaration
NamesOf(d, classPrefix) ==
  [dedupKey     |-> normalizeAtomKey(d.property, d.value),
   hashContent  |-> HashContent(d.property, d.value, d.variant),
   hash         |-> hashPropertyValue(d.property, d.value, d.variant),
   babelClass   |-> generateClassNameBabel(d.property, d.value, TRUE, classPrefix, d.variant),
   verboseClass |-> generateClassNameBabel(d.property, d.value, FALSE, classPrefix, d.variant),
   runtimeClass |-> generateClassName(HashContent(d.property, d.value, d.variant),
                      [production |-> TRUE, shortClassNames |-> FALSE,
                       classPrefix |-> classPrefix])]

(***************************************************************************)
(* CriticalCSSExtractor                                                    *)
(***************************************************************************)
MaxRules == 2      \* rules in one stylesheet handed to the extractor
MaxCritOps == 2    \* calls made on one extractor

LBrace == <<123>>
RBrace == <<125>>
Comma  == <<44>>
NewLine == <<10>>

\* Array.prototype.join(sep)
RECURSIVE Join(_, _)
Join(ss, sep) ==
  IF ss = <<>> THEN <<>>
  ELSE IF Len(ss) = 1 THEN ss[1]
  ELSE ss[1] \o sep \o Join(Tail(ss), sep)

\* the successive matches of /([^{]+)\s*\{([^}]+)\}/g from index p on: the pairs
\* <<group 1, group 2>>.  Group 1 runs up to the first '{', group 2 from there up
\* to the first '}' and may contain '{'.
RECURSIVE MatchesFrom(_, _)
MatchesFrom(css, p) ==
  IF p >= Len(css) THEN <<>>
  ELSE IF css[p + 1] = 123 THEN MatchesFrom(css, p + 1)
  ELSE LET j == IndexOf(css, LBrace, p)
           k == IF j < 0 THEN -1 ELSE IndexOf(css, RBrace, j + 1)
       IN IF j < 0 \/ k < 0 THEN <<>>
          ELSE IF k = j + 1 THEN MatchesFrom(css, j + 1)
          ELSE << <<SubSeq(css, p + 1, j), SubSeq(css, j + 2, k)>> >>
                 \o MatchesFrom(css, k + 1)

RuleMatches(css) == MatchesFrom(css, 0)

\* the rules of the stylesheets below
S_rule_header == <<46, 104, 101, 97, 100, 101, 114, 32, 123, 32, 99, 111, 108, 111, 114, 58, 32, 98, 108, 117, 101, 59, 32, 125>>
S_rule_footer == <<46, 102, 111, 111, 116, 101, 114, 123, 99, 111, 108, 111, 114, 58, 103, 114, 97, 121, 125>>
S_rule_list   == <<104, 101, 97, 100, 101, 114, 44, 32, 46, 104, 101, 114, 111, 32, 123, 32, 109, 97, 114, 103, 105, 110, 58, 32, 48, 59, 32, 125>>
S_rule_media  == <<64, 109, 101, 100, 105, 97, 32, 40, 109, 105, 110, 45, 119, 105, 100, 116, 104, 58, 32, 55, 54, 56, 112, 120, 41, 32, 123, 32, 46, 104, 101, 114, 111, 32, 123, 32, 99, 111, 108, 111, 114, 58, 32, 114, 101, 100, 59, 32, 125, 32, 125>>

S_rule_plain  == <<104, 101, 97, 100, 101, 114, 32, 123, 32, 98, 97, 99, 107, 103, 114, 111, 117, 110, 100, 58, 32, 119, 104, 105, 116, 101, 59, 32, 125>>

RuleTexts == <<S_rule_header, S_rule_footer, S_rule_list, S_rule_media, S_rule_plain>>

RuleIds == 1..Len(RuleTexts)

\* a stylesheet is a sequence of rules; its text is their concatenation
Sheets == UNION {[1..n -> RuleIds] : n \in 0..MaxRules}

SheetText(sheet) == Flatten([i \in 1..Len(sheet) |-> RuleTexts[sheet[i]]])

\* the matches of the stylesheets above are computed once; any other text is matched on demand
MatchTable == [css \in {SheetText(sheet) : sheet \in Sheets} |-> RuleMatches(css)]

RuleMatchesOf(css) ==
  IF css \in DOMAIN MatchTable THEN MatchTable[css] ELSE RuleMatches(css)

S_header  == <<104, 101, 97, 100, 101, 114>>
S_footer  == <<102, 111, 111, 116, 101, 114>>
S_dheader == <<46, 104, 101, 97, 100, 101, 114>>
S_dfooter == <<46, 102, 111, 111, 116, 101, 114>>
S_dhero   == <<46, 104, 101, 114, 111>>

\* the configurations an extractor is constructed with
Configs ==
  { [enabled |-> TRUE,  forceInclude |-> <<>>,         exclude |-> <<>>],
    [enabled |-> TRUE,  forceInclude |-> <<S_header>>, exclude |-> <<S_footer>>],
    [enabled |-> TRUE,  forceInclude |-> <<S_header>>, exclude |-> <<S_header>>],
    [enabled |-> FALSE, forceInclude |-> <<>>,         exclude |-> <<>>] }

\* the selectors marked by hand
MarkSelectors == {S_dheader, S_dfooter, S_dhero}

NewExtractor(config) ==
  [config |-> config, criticalSelectors |-> {}, nonCriticalSelectors |-> {}]

markCritical_addOnly(self, selector) ==
  [self EXCEPT !.criticalSelectors = @ \cup {selector}]

markCritical(self, selector) ==
  [self EXCEPT !.criticalSelectors = @ \cup {selector},
               !.nonCriticalSelectors = @ \ {selector}]

markNonCritical(self, selector) ==
  [self EXCEPT !.nonCriticalSelectors = @ \cup {selector},
               !.criticalSelectors = @ \ {selector}]

\* config.<list>.some((pattern) => selector.includes(pattern))
SomeIncluded(patterns, selector) ==
  \E i \in 1..Len(patterns) : Includes(selector, patterns[i])


isCritical(self, selector) ==
  IF SomeIncluded(self.config.forceInclude, selector) THEN TRUE
  ELSE IF SomeIncluded(self.config.exclude, selector) THEN FALSE
  ELSE selector \in self.criticalSelectors

\* the rules of the loop in extract, as <<rule text, isCritical>>, skipped matches left out
ExtractedRules(self, fullCSS) ==
  LET matches == RuleMatchesOf(fullCSS)
      ruleOf(m) ==
        LET selector     == Trim(m[1])
            declarations == Trim(m[2])
            parts        == Split(selector, Comma)
        IN IF selector = <<>> \/ declarations = <<>> THEN <<>>
           ELSE << <<selector \o <<32, 123, 32>> \o declarations \o <<32, 125>>,
                     \E i \in 1..Len(parts) : isCritical(self, Trim(parts[i]))>> >>
  IN Flatten([i \in 1..Len(matches) |-> ruleOf(matches[i])])

extract(self, fullCSS) ==
  IF ~self.config.enabled
  THEN [critical |-> <<>>, nonCritical |-> fullCSS]
  ELSE LET rules       == ExtractedRules(self, fullCSS)
           IsCrit(r)   == r[2]
           IsNonCrit(r) == ~r[2]
           texts(rs)   == [i \in 1..Len(rs) |-> rs[i][1]]
       IN [critical    |-> Join(texts(SelectSeq(rules, IsCrit)), NewLine),
           nonCritical |-> Join(texts(SelectSeq(rules, IsNonCrit)), NewLine)]

\* the patterns of autoDetect: /^text$/, /^text\b/ and /text/
CriticalPatterns ==
  << [kind |-> "exact", text |-> <<42>>],
     [kind |-> "exact", text |-> <<104, 116, 109, 108>>],
     [kind |-> "exact", text |-> <<98, 111, 100, 121>>],
     [kind |-> "word", text |-> <<46, 99, 111, 110, 116, 97, 105, 110, 101, 114>>],
     [kind |-> "word", text |-> <<46, 119, 114, 97, 112, 112, 101, 114>>],
     [kind |-> "word", text |-> <<46, 108, 97, 121, 111, 117, 116>>],
     [kind |-> "word", text |-> <<104, 101, 97, 100, 101, 114>>],
     [kind |-> "word", text |-> <<110, 97, 118>>],
     [kind |-> "word", text |-> <<46, 104, 101, 97, 100, 101, 114>>],
     [kind |-> "word", text |-> <<46, 110, 97, 118, 98, 97, 114>>],
     [kind |-> "word", text |-> <<46, 108, 111, 103, 111>>],
     [kind |-> "word", text |-> <<46, 98, 114, 97, 110, 100>>],
     [kind |-> "word", text |-> <<46, 104, 101, 114, 111>>],
     [kind |-> "word", text |-> <<46, 98, 97, 110, 110, 101, 114>>],
     [kind |-> "word", text |-> <<104, 49>>],
     [kind |-> "word", text |-> <<46, 116, 105, 116, 108, 101>>],
     [kind |-> "word", text |-> <<46, 104, 101, 97, 100, 105, 110, 103>>],
     [kind |-> "contains", text |-> <<64, 102, 111, 110, 116, 45, 102, 97, 99, 101>>] >>

IsWordChar(c) == IsAlnum(c) \/ c = 95

StartsWith(str, prefix) ==
  Len(str) >= Len(prefix) /\ SubSeq(str, 1, Len(prefix)) = prefix

\* pattern.test(selector); every /^text\b/ above ends in a word character
PatternTest(pattern, selector) ==
  CASE pattern.kind = "exact"    -> selector = pattern.text
    [] pattern.kind = "word"     ->
         /\ StartsWith(selector, pattern.text)
         /\ (Len(selector) = Len(pattern.text)
               \/ ~IsWordChar(selector[Len(pattern.text) + 1]))
    [] pattern.kind = "contains" -> Includes(selector, pattern.text)

MatchesCriticalPattern(selector) ==
  \E i \in 1..Len(CriticalPatterns) : PatternTest(CriticalPatterns[i], selector)

\* the selectors autoDetect looks at, in order
DetectedSelectors(css) ==
  LET matches == RuleMatchesOf(css)
      NonEmpty(x) == x # <<>>
  IN SelectSeq([i \in 1..Len(matches) |-> Trim(matches[i][1])], NonEmpty)

RECURSIVE MarkDetected(_, _)
MarkDetected(self, selectors) ==
  IF selectors = <<>> THEN self
  ELSE MarkDetected(IF MatchesCriticalPattern(Head(selectors))
                    THEN markCritical(self, Head(selectors))
                    ELSE markNonCritical(self, Head(selectors)),
                    Tail(selectors))

autoDetect(self, css) == MarkDetected(self, DetectedSelectors(css))

resetExtractor(self) ==
  [self EXCEPT !.criticalSelectors = {}, !.nonCriticalSelectors = {}]

\* CriticalCSSExtractor.getStats(); criticalPercentage is (critical / total) * 100, kept as the pair of the
\* numerator critical * 100 and the denominator total, and as 0 when total is 0
extractorGetStats(self) ==
  [critical |-> Cardinality(self.criticalSelectors),
   nonCritical |-> Cardinality(self.nonCriticalSelectors),
   total |-> Cardinality(self.criticalSelectors) + Cardinality(self.nonCriticalSelectors),
   criticalPercentage |->
     IF Cardinality(self.criticalSelectors) + Cardinality(self.nonCriticalSelectors) > 0
     THEN <<Cardinality(self.criticalSelectors) * 100,
            Cardinality(self.criticalSelectors) + Cardinality(self.nonCriticalSelectors)>>
     ELSE <<0, 1>>]

(***************************************************************************)
(* State: the registries of one batch run, the last call and its result,   *)
(* and the bookkeeping the properties below are stated with.               *)
(***************************************************************************)
VARIABLES
  registry,   \* registry[r]: the three maps of registry r
  last,       \* the last operation performed, with its result
  calls,      \* calls[r][d]: registerAtom calls for Decls[d] on r since it was constructed or reset
  merged,     \* merged[r][k]: usage of AtomKey k summed over the exports imported into r
  imported,   \* imported[r]: r has been filled by import since it was constructed or reset
  firstSeen,  \* firstSeen[r]: the declarations registered on r, in the order of their first registration
  named,      \* named.pair: the two declarations being named; named.prefix: the classPrefix option
  names,      \* names[i]: what the namers derived for named.pair[i], <<>> before they ran
  extractor,  \* the critical CSS extractor: its configuration and its two selector sets
  manual,     \* manual[s]: how selector s was last marked by a markCritical / markNonCritical call
  auto,       \* auto[s]: how selector s was classified by the last autoDetect that saw it
  input,      \* the arguments handed to a function of the style pipeline, <<>> when none is in use
  output,     \* what that function returned, <<>> before it ran
  system,     \* the style system of the runtime: its rule map, its cache and its layer configuration
  scan,       \* the scan of the source files: the file being read and the results so far
  vite,       \* the Vite plugin instance, the runtime rule map it reads and the page of the dev client
  page,       \* the page the Next.js client runtime runs in, and the probes it has made
  nops        \* operations performed so far

regVars == <<registry, calls, merged, imported, firstSeen>>
nameVars == <<named, names>>
critVars == <<extractor, manual, auto>>
pureVars == <<input, output>>
hostVars == <<system, scan, vite, page>>
vars == <<registry, last, calls, merged, imported, firstSeen, named, names,
          extractor, manual, auto, input, output, system, scan, vite, page, nops>>

\* Decls[d] written canonically is Decls[CanonicalDecl[d]]: entries 1 and 2 are one declaration
CanonicalDecl == <<1, 1, 3, 4, 5>>

AddFirstSeen(seen, d) ==
  IF CanonicalDecl[d] \in Range(seen) THEN seen ELSE Append(seen, CanonicalDecl[d])

\* usage recorded for an AtomKey: the count stored under its class name
UsageOfKey(self, k) ==
  IF MapHas(self.atoms, k) /\ MapHas(self.usage, MapGet(self.atoms, k))
  THEN MapGet(self.usage, MapGet(self.atoms, k)) ELSE 0

RegistryInit ==
  /\ registry = [r \in Regs |-> NewRegistry]
  /\ calls = [r \in Regs |-> [d \in DeclIds |-> 0]]
  /\ merged = [r \in Regs |-> [k \in AtomKeys |-> 0]]
  /\ imported = [r \in Regs |-> FALSE]
  /\ firstSeen = [r \in Regs |-> <<>>]

\* no declaration is being named
NamesIdle == named = [pair |-> <<>>, prefix |-> Undefined] /\ names = <<>>

\* no extractor is in use
ExtractorIdle == extractor = <<>> /\ manual = <<>> /\ auto = <<>>

\* no function of the style pipeline is in use
PureIdle == input = <<>> /\ output = <<>>

\* no style system, plugin instance or page is in use
HostIdle == system = <<>> /\ scan = <<>> /\ vite = <<>> /\ page = <<>>

Init ==
  /\ RegistryInit
  /\ HostIdle
  /\ PureIdle
  /\ NamesIdle
  /\ ExtractorIdle
  /\ last = [op |-> "none"]
  /\ nops = 0

RegisterAtom(r, d) ==
  LET res == registerAtom(registry[r], Decls[d].property, Decls[d].value)
  IN /\ nops < MaxOps
     /\ registry' = [registry EXCEPT ![r] = res.reg]
     /\ last' = [op |-> "registerAtom", r |-> r, d |-> d, ret |-> res.ret]
     /\ calls' = [calls EXCEPT ![r][d] = @ + 1]
     /\ firstSeen' = [firstSeen EXCEPT ![r] = AddFirstSeen(@, d)]
     /\ nops' = nops + 1
     /\ UNCHANGED <<merged, imported, nameVars, critVars, pureVars, hostVars>>

Reset(r) ==
  /\ nops < MaxOps
  /\ registry' = [registry EXCEPT ![r] = reset(@)]
  /\ last' = [op |-> "reset", r |-> r, had |-> Len(registry[r].atoms)]
  /\ calls' = [calls EXCEPT ![r] = [d \in DeclIds |-> 0]]
  /\ merged' = [merged EXCEPT ![r] = [k \in AtomKeys |-> 0]]
  /\ imported' = [imported EXCEPT ![r] = FALSE]
  /\ firstSeen' = [firstSeen EXCEPT ![r] = <<>>]
  /\ nops' = nops + 1
  /\ UNCHANGED <<nameVars, critVars, pureVars, hostVars>>

\* the combining registry imports what worker s exports at this moment
Import(s) ==
  /\ nops < MaxOps
  /\ registry' = [registry EXCEPT ![Combiner] = import(@, export(registry[s]))]
  /\ last' = [op |-> "import", r |-> Combiner, from |-> s]
  /\ merged' = [merged EXCEPT ![Combiner] =
                  [k \in AtomKeys |-> @[k] + UsageOfKey(registry[s], k)]]
  /\ imported' = [imported EXCEPT ![Combiner] = TRUE]
  /\ firstSeen' = [firstSeen EXCEPT ![Combiner] = firstSeen[s]]
  /\ nops' = nops + 1
  /\ UNCHANGED <<calls, nameVars, critVars, pureVars, hostVars>>

Next ==
  \/ \E r \in Regs, d \in DeclIds : RegisterAtom(r, d)
  \/ \E r \in Regs : Reset(r)
  \/ \E s \in Workers : Import(s)

Spec == Init /\ [][Next]_vars

(***************************************************************************)
(* The namers applied to pairs of declarations                             *)
(***************************************************************************)
InitNames ==
  /\ RegistryInit
  /\ HostIdle
  /\ PureIdle
  /\ ExtractorIdle
  /\ \E a, b \in NameDeclIds, px \in ClassPrefixes : named = [pair |-> <<a, b>>, prefix |-> px]
  /\ names = <<>>
  /\ last = [op |-> "none"]
  /\ nops = 0

ComputeNames ==
  /\ names = <<>>
  /\ names' = [i \in 1..2 |-> NamesOf(NameDecls[named.pair[i]], named.prefix)]
  /\ last' = [op |-> "names"]
  /\ UNCHANGED <<regVars, critVars, named, nops, pureVars, hostVars>>

NextNames == ComputeNames

SpecNames == InitNames /\ [][NextNames]_vars

(***************************************************************************)
(* One extractor, marked by hand and by autoDetect, and asked to extract   *)
(***************************************************************************)
\* manual and auto map a selector to "critical" or "nonCritical"; a selector
\* outside their domain has no mark of that kind
MarkOf(marks, selector) ==
  IF selector \in DOMAIN marks THEN marks[selector] ELSE "none"

SetMark(marks, selector, status) ==
  [x \in DOMAIN marks \cup {selector} |-> IF x = selector THEN status ELSE marks[x]]

RECURSIVE SetAutoMarks(_, _)
SetAutoMarks(marks, selectors) ==
  IF selectors = <<>> THEN marks
  ELSE SetAutoMarks(SetMark(marks, Head(selectors),
                            IF MatchesCriticalPattern(Head(selectors))
                            THEN "critical" ELSE "nonCritical"),
                    Tail(selectors))

InitCritical ==
  /\ RegistryInit
  /\ HostIdle
  /\ PureIdle
  /\ NamesIdle
  /\ \E config \in Configs : extractor = NewExtractor(config)
  /\ manual = <<>>
  /\ auto = <<>>
  /\ last = [op |-> "none"]
  /\ nops = 0

MarkCritical(selector) ==
  /\ nops < MaxCritOps
  /\ extractor' = markCritical(extractor, selector)
  /\ manual' = SetMark(manual, selector, "critical")
  /\ last' = [op |-> "markCritical", selector |-> selector]
  /\ nops' = nops + 1
  /\ UNCHANGED <<auto, regVars, nameVars, pureVars, hostVars>>

MarkNonCritical(selector) ==
  /\ nops < MaxCritOps
  /\ extractor' = markNonCritical(extractor, selector)
  /\ manual' = SetMark(manual, selector, "nonCritical")
  /\ last' = [op |-> "markNonCritical", selector |-> selector]
  /\ nops' = nops + 1
  /\ UNCHANGED <<auto, regVars, nameVars, pureVars, hostVars>>

AutoDetect(sheet) ==
  /\ nops < MaxCritOps
  /\ extractor' = autoDetect(extractor, SheetText(sheet))
  /\ auto' = SetAutoMarks(auto, DetectedSelectors(SheetText(sheet)))
  /\ last' = [op |-> "autoDetect", sheet |-> sheet]
  /\ nops' = nops + 1
  /\ UNCHANGED <<manual, regVars, nameVars, pureVars, hostVars>>

Extract(sheet) ==
  LET result == extract(extractor, SheetText(sheet))
  IN /\ nops < MaxCritOps
     /\ last' = [op |-> "extract", sheet |-> sheet,
                 critical |-> result.critical, nonCritical |-> result.nonCritical]
     /\ nops' = nops + 1
     /\ UNCHANGED <<critVars, regVars, nameVars, pureVars, hostVars>>

ExtractorReset ==
  /\ nops < MaxCritOps
  /\ extractor' = resetExtractor(extractor)
  /\ manual' = <<>>
  /\ auto' = <<>>
  /\ last' = [op |-> "reset"]
  /\ nops' = nops + 1
  /\ UNCHANGED <<regVars, nameVars, pureVars, hostVars>>

GetStats ==
  /\ nops < MaxCritOps
  /\ last' = [op |-> "getStats", stats |-> extractorGetStats(extractor)]
  /\ nops' = nops + 1
  /\ UNCHANGED <<critVars, regVars, nameVars, pureVars, hostVars>>

NextCritical ==
  \/ \E selector \in MarkSelectors : MarkCritical(selector)
  \/ \E selector \in MarkSelectors : MarkNonCritical(selector)
  \/ \E sheet \in Sheets : AutoDetect(sheet)
  \/ \E sheet \in Sheets : Extract(sheet)
  \/ ExtractorReset

SpecCritical == InitCritical /\ [][NextCritical]_vars

(***************************************************************************)
(* What the declarations mean, written out by hand                         *)
(***************************************************************************)
\* the CSS declaration text property:value of each canonical declaration
DeclText ==
  [d \in {1, 3, 4, 5} |->
     CASE d = 1 -> <<98, 97, 99, 107, 103, 114, 111, 117, 110, 100, 45, 99, 111, 108, 111, 114, 58, 114, 101, 100>>
       [] d = 3 -> <<108, 101, 102, 116, 58, 49, 54, 48, 50, 37>>
       [] d = 4 -> <<114, 105, 103, 104, 116, 58, 56, 49, 50, 114, 101, 109>>
       [] d = 5 -> <<99, 111, 108, 111, 114, 58>>]

\* declaration 5 has no value
HasValue(d) == d # 5

\* the identifier registry r holds for declaration d
IdentifierOf(r, d) == MapGet(registry[r].atoms, AtomKeyOf(d))

Registered(r, d) == MapHas(registry[r].atoms, AtomKeyOf(d))

KeysOf(r) == [i \in 1..Len(registry[r].atoms) |-> registry[r].atoms[i][1]]

\* .<identifier>{<property>:<value>}
RuleText(r, d) == <<46>> \o IdentifierOf(r, d) \o <<123>> \o DeclText[d] \o <<125>>

\* registerAtom calls made on r for the declaration d, in any spelling
CallsFor(r, d) ==
  SumSeq([e \in DeclIds |-> IF CanonicalDecl[e] = CanonicalDecl[d] THEN calls[r][e] ELSE 0])

C2_OneKeyPerIdentifier ==
  \A r \in Regs : \A i, j \in 1..Len(registry[r].atoms) :
    registry[r].atoms[i][2] = registry[r].atoms[j][2] => i = j

(***************************************************************************)
(* C3: on a registry driven by registerAtom calls only, the usage count    *)
(* recorded for a registered declaration is the number of calls made for   *)
(* it, and a call returns the identifier the registry holds for it.        *)
(***************************************************************************)
C3_UsageCountsEveryCall ==
  /\ \A r \in Regs : \A d \in DeclIds :
       (~imported[r] /\ CallsFor(r, d) >= 1)
         => UsageOfKey(registry[r], AtomKeyOf(d)) = CallsFor(r, d)
  /\ last.op = "registerAtom" => last.ret = IdentifierOf(last.r, last.d)

(***************************************************************************)
(* C7: after the combining registry has imported exports and nothing else  *)
(* was registered on it, it holds one atom per distinct AtomKey of the     *)
(* imported exports, with the usage counts of the exports added together.  *)
(***************************************************************************)
C7_MergeAddsUsage ==
  (imported[Combiner] /\ \A d \in DeclIds : calls[Combiner][d] = 0)
    => \A k \in AtomKeys :
         /\ UsageOfKey(registry[Combiner], k) = merged[Combiner][k]
         /\ merged[Combiner][k] > 0 =>
              Cardinality({i \in 1..Len(registry[Combiner].atoms) :
                             registry[Combiner].atoms[i][1] = k}) = 1

(***************************************************************************)
(* C8: right after an import the combining registry has the exported       *)
(* state: the same atoms, usage counts, statistics and rule text as the    *)
(* registry that exported; and a later registerAtom of a declaration it    *)
(* holds returns the identifier it holds and adds one to its usage count.  *)
(***************************************************************************)
C8_ImportedState ==
  last.op = "import" =>
    /\ export(registry[Combiner]) = export(registry[last.from])
    /\ getStats(registry[Combiner]) = getStats(registry[last.from])
    /\ generateAtomicCSS(registry[Combiner]) = generateAtomicCSS(registry[last.from])

C8_RegisterAfterImport ==
  \A d \in DeclIds :
    (imported[Combiner] /\ Registered(Combiner, d) /\ RegisterAtom(Combiner, d))
      => /\ last'.ret = IdentifierOf(Combiner, d)
         /\ UsageOfKey(registry'[Combiner], AtomKeyOf(d))
              = UsageOfKey(registry[Combiner], AtomKeyOf(d)) + 1
         /\ KeysOf(Combiner) = [i \in 1..Len(registry'[Combiner].atoms) |->
                                  registry'[Combiner].atoms[i][1]]

C8_ExportImportRoundTrip == [](C8_ImportedState) /\ [][C8_RegisterAfterImport]_vars

\* the combining registry imported a non-empty export and then registered one of its declarations
C8_Witness ==
  /\ imported[Combiner]
  /\ last.op = "registerAtom" /\ last.r = Combiner
  /\ UsageOfKey(registry[Combiner], AtomKeyOf(last.d)) >= 2

CssIdentity == <<1, 2, 3, 3, 5, 6, 7, 7>>

SameCssText(a, b) == CssIdentity[a] = CssIdentity[b]

C10_AtomKeyIffSameCss ==
  names # <<>> =>
    LET a == named.pair[1]
        b == named.pair[2]
    IN /\ SameCssText(a, b) =>
            /\ names[1].dedupKey = names[2].dedupKey
            /\ names[1].hashContent = names[2].hashContent
       /\ ~SameCssText(a, b) =>
            /\ names[1].dedupKey # names[2].dedupKey
            /\ names[1].hashContent # names[2].hashContent

(***************************************************************************)
(* The rules of the stylesheets, written out by hand                       *)
(***************************************************************************)
RuleSelector ==
  << <<46, 104, 101, 97, 100, 101, 114>>,
     <<46, 102, 111, 111, 116, 101, 114>>,
     <<104, 101, 97, 100, 101, 114, 44, 32, 46, 104, 101, 114, 111>>,
     <<64, 109, 101, 100, 105, 97, 32, 40, 109, 105, 110, 45, 119, 105, 100, 116, 104, 58, 32, 55, 54, 56, 112, 120, 41>>,
     <<104, 101, 97, 100, 101, 114>> >>

RuleBody ==
  << <<99, 111, 108, 111, 114, 58, 32, 98, 108, 117, 101, 59>>,
     <<99, 111, 108, 111, 114, 58, 103, 114, 97, 121>>,
     <<109, 97, 114, 103, 105, 110, 58, 32, 48, 59>>,
     <<46, 104, 101, 114, 111, 32, 123, 32, 99, 111, 108, 111, 114, 58, 32, 114, 101, 100, 59, 32, 125>>,
     <<98, 97, 99, 107, 103, 114, 111, 117, 110, 100, 58, 32, 119, 104, 105, 116, 101, 59>> >>

\* a rule as extract writes it: selector { body }
FormatRule(i) == RuleSelector[i] \o <<32, 123, 32>> \o RuleBody[i] \o <<32, 125>>

\* the rules of a stylesheet at the positions in S, in order, one per line
RulesAt(sheet, S) ==
  LET InS(i) == i \in S
      picked == SelectSeq([i \in 1..Len(sheet) |-> i], InS)
  IN Join([n \in 1..Len(picked) |-> FormatRule(sheet[picked[n]])], NewLine)

(***************************************************************************)
(* C5: extract puts every rule of the stylesheet in exactly one of its two *)
(* outputs: the outputs are the rules at some positions and the rules at   *)
(* the remaining positions, each rule once, none missing; an extractor     *)
(* that is not enabled puts the whole stylesheet in the non-critical one.  *)
(***************************************************************************)
C5_ExtractPartitions ==
  last.op = "extract" =>
    IF extractor.config.enabled
    THEN \E S \in SUBSET (1..Len(last.sheet)) :
           /\ last.critical = RulesAt(last.sheet, S)
           /\ last.nonCritical = RulesAt(last.sheet, (1..Len(last.sheet)) \ S)
    ELSE /\ last.critical = <<>>
         /\ last.nonCritical = SheetText(last.sheet)

(***************************************************************************)
(* C6: classification follows exclude > include > auto-detected > default: *)
(* a selector matched by the exclude list is not critical, also when it is *)
(* included; otherwise a selector matched by forceInclude or last marked   *)
(* critical by hand is critical, also when autoDetect classified it as     *)
(* non-critical; otherwise a selector without a mark by hand is critical   *)
(* exactly when autoDetect classified it as critical.                      *)
(***************************************************************************)
C6_Precedence ==
  extractor # <<>> =>
    \A selector \in MarkSelectors \cup DOMAIN manual \cup DOMAIN auto :
      LET excluded == SomeIncluded(extractor.config.exclude, selector)
          included == \/ SomeIncluded(extractor.config.forceInclude, selector)
                      \/ MarkOf(manual, selector) = "critical"
      IN /\ excluded => ~isCritical(extractor, selector)
         /\ (~excluded /\ included) => isCritical(extractor, selector)
         /\ (~excluded /\ ~included /\ MarkOf(manual, selector) = "none")
              => (isCritical(extractor, selector) <=> MarkOf(auto, selector) = "critical")

(***************************************************************************)
(* Reading a class name back                                               *)
(***************************************************************************)
\* the part of s after its last c; s itself when it has none
AfterLast(s, c) ==
  LET at == {i \in 1..Len(s) : s[i] = c}
  IN IF at = {} THEN s
     ELSE SubSeq(s, (CHOOSE i \in at : \A j \in at : j <= i) + 1, Len(s))

\* the prefix the compact name starts with
CompactPrefix(classPrefix) == IF Truthy(classPrefix) THEN classPrefix ELSE S_s

(***************************************************************************)
(* C11: the verbose and the compact class name of a declaration are built  *)
(* from one hash: what follows the prefix in the compact name is the       *)
(* base-36 hash of the declaration, and the suffix after the last '_' of   *)
(* the verbose name is the first four characters of that same hash.        *)
(***************************************************************************)
C11_OneHashBothModes ==
  names # <<>> =>
    \A i \in 1..2 :
      LET prefix  == CompactPrefix(named.prefix)
          compact == SliceFrom(names[i].babelClass, Len(prefix))
          suffix  == AfterLast(names[i].verboseClass, 95)
      IN /\ SubSeq(names[i].babelClass, 1, Len(prefix)) = prefix
         /\ compact = names[i].hash
         /\ suffix = SubSeq(compact, 1, IF Len(compact) < 4 THEN Len(compact) ELSE 4)
         /\ Len(suffix) > 0

\* names were computed for a declaration with a variant, under a class prefix of the caller
C11_Witness ==
  /\ names # <<>>
  /\ named.prefix = S_x
  /\ NameDecls[named.pair[1]].variant # <<>>
  /\ names[1].verboseClass # names[1].babelClass

(***************************************************************************)
(* normalizeCSSValue                                                       *)
(***************************************************************************)
\* a JavaScript value: null, undefined, a string, a number (an integer here) or a boolean;
\* v holds the characters of a string, <<n>> for the number n, <<1>> for true and <<0>> for false
NullValue      == [type |-> "null", v |-> <<>>]
UndefinedValue == [type |-> "undefined", v |-> <<>>]
StringValue(s) == [type |-> "string", v |-> s]
NumberValue(n) == [type |-> "number", v |-> <<n>>]
BooleanValue(b) == [type |-> "boolean", v |-> IF b THEN <<1>> ELSE <<0>>]

\* String(n) of a non-negative integer
RECURSIVE NatToString(_)
NatToString(n) ==
  IF n < 10 THEN <<48 + n>> ELSE NatToString(n \div 10) \o <<48 + (n % 10)>>

\* String(n) of an integer
IntToString(n) == IF n < 0 THEN <<45>> \o NatToString(0 - n) ELSE NatToString(n)

\* String(n * 0.25) of an integer n: the quarters are exact in binary floating point
QuarterToString(n) ==
  LET a     == IF n < 0 THEN 0 - n ELSE n
      whole == NatToString(a \div 4)
      frac  == CASE a % 4 = 0 -> <<>>
                 [] a % 4 = 1 -> <<46, 50, 53>>
                 [] a % 4 = 2 -> <<46, 53>>
                 [] a % 4 = 3 -> <<46, 55, 53>>
  IN (IF n < 0 THEN <<45>> ELSE <<>>) \o whole \o frac

S_rem   == <<114, 101, 109>>
S_pxu   == <<112, 120>>
S_true  == <<116, 114, 117, 101>>
S_false == <<102, 97, 108, 115, 101>>
Dollar  == 36

spacingProps ==
  << <<112>>, <<112, 97, 100, 100, 105, 110, 103>>, <<109>>, <<109, 97, 114, 103, 105, 110>>, <<103, 97, 112>>, <<115, 112, 97, 99, 101>> >>

unitlessProps ==
  << <<111, 112, 97, 99, 105, 116, 121>>,
     <<122, 73, 110, 100, 101, 120>>,
     <<102, 111, 110, 116, 87, 101, 105, 103, 104, 116>>,
     <<108, 105, 110, 101, 72, 101, 105, 103, 104, 116>>,
     <<102, 108, 101, 120>>,
     <<102, 108, 101, 120, 71, 114, 111, 119>>,
     <<102, 108, 101, 120, 83, 104, 114, 105, 110, 107>>,
     <<111, 114, 100, 101, 114>> >>

\* spacingProps.some(prop => property.startsWith(prop))
IsSpacing(property) ==
  \E i \in 1..Len(spacingProps) : StartsWith(property, spacingProps[i])

normalizeCSSValue(property, value, tokens) ==
  CASE value.type \in {"null", "undefined"} -> <<>>
    [] value.type = "string" ->
         IF tokens.given /\ StartsWith(value.v, <<Dollar>>)
         THEN LET tokenKey == SliceFrom(value.v, 1)
              IN IF MapHas(tokens.map, tokenKey) /\ Truthy(MapGet(tokens.map, tokenKey))
                 THEN MapGet(tokens.map, tokenKey) ELSE value.v
         ELSE value.v
    [] value.type = "number" ->
         IF IsSpacing(property) THEN QuarterToString(value.v[1]) \o S_rem
         ELSE IF property \in Range(unitlessProps) THEN IntToString(value.v[1])
         ELSE IntToString(value.v[1]) \o S_pxu
    [] value.type = "boolean" -> IF value.v = <<1>> THEN S_true ELSE S_false

(***************************************************************************)
(* One call of normalizeCSSValue                                           *)
(***************************************************************************)
\* the properties a value is normalized for, each with the family it belongs to
ValueProps ==
  << [name |-> <<112>>, family |-> "spacing"],
     [name |-> <<112, 97, 100, 100, 105, 110, 103>>, family |-> "spacing"],
     [name |-> <<112, 97, 100, 100, 105, 110, 103, 84, 111, 112>>, family |-> "spacing"],
     [name |-> <<112, 116>>, family |-> "spacing"],
     [name |-> <<112, 120>>, family |-> "spacing"],
     [name |-> <<109>>, family |-> "spacing"],
     [name |-> <<109, 116>>, family |-> "spacing"],
     [name |-> <<109, 97, 114, 103, 105, 110>>, family |-> "spacing"],
     [name |-> <<109, 97, 114, 103, 105, 110, 76, 101, 102, 116>>, family |-> "spacing"],
     [name |-> <<103, 97, 112>>, family |-> "spacing"],
     [name |-> <<111, 112, 97, 99, 105, 116, 121>>, family |-> "unitless"],
     [name |-> <<122, 73, 110, 100, 101, 120>>, family |-> "unitless"],
     [name |-> <<102, 111, 110, 116, 87, 101, 105, 103, 104, 116>>, family |-> "unitless"],
     [name |-> <<108, 105, 110, 101, 72, 101, 105, 103, 104, 116>>, family |-> "unitless"],
     [name |-> <<102, 108, 101, 120>>, family |-> "unitless"],
     [name |-> <<102, 108, 101, 120, 71, 114, 111, 119>>, family |-> "unitless"],
     [name |-> <<102, 108, 101, 120, 83, 104, 114, 105, 110, 107>>, family |-> "unitless"],
     [name |-> <<111, 114, 100, 101, 114>>, family |-> "unitless"],
     [name |-> <<119, 105, 100, 116, 104>>, family |-> "other"],
     [name |-> <<119>>, family |-> "other"],
     [name |-> <<104>>, family |-> "other"],
     [name |-> <<102, 111, 110, 116, 83, 105, 122, 101>>, family |-> "other"],
     [name |-> <<116, 111, 112>>, family |-> "other"],
     [name |-> <<109, 97, 120, 87>>, family |-> "other"],
     [name |-> <<109, 105, 110, 72, 101, 105, 103, 104, 116>>, family |-> "other"],
     [name |-> <<112, 101, 114, 115, 112, 101, 99, 116, 105, 118, 101>>, family |-> "other"] >>

\* the numbers handed in, each with the text of the number and of a quarter of it
Numbers ==
  << [n |-> -2, bare |-> <<45, 50>>, quarter |-> <<45, 48, 46, 53>>],
     [n |-> 0, bare |-> <<48>>, quarter |-> <<48>>],
     [n |-> 1, bare |-> <<49>>, quarter |-> <<48, 46, 50, 53>>],
     [n |-> 2, bare |-> <<50>>, quarter |-> <<48, 46, 53>>],
     [n |-> 3, bare |-> <<51>>, quarter |-> <<48, 46, 55, 53>>],
     [n |-> 4, bare |-> <<52>>, quarter |-> <<49>>],
     [n |-> 100, bare |-> <<49, 48, 48>>, quarter |-> <<50, 53>>] >>

S_auto   == <<97, 117, 116, 111>>
S_dbrand == <<36, 98, 114, 97, 110, 100>>
S_dnone  == <<36, 110, 111, 110, 101>>
S_brand  == <<98, 114, 97, 110, 100>>
S_f00    == <<35, 102, 48, 48>>

Values ==
  {NumberValue(Numbers[i].n) : i \in 1..Len(Numbers)}
    \cup {NullValue, UndefinedValue, BooleanValue(TRUE), BooleanValue(FALSE),
          StringValue(S_auto), StringValue(S_dbrand), StringValue(S_dnone)}

\* the tokens argument: left out, or a map of token names to values
TokenSets == {[given |-> FALSE, map |-> <<>>], [given |-> TRUE, map |-> << <<S_brand, S_f00>> >>]}

InitValues ==
  /\ RegistryInit
  /\ HostIdle
  /\ NamesIdle
  /\ ExtractorIdle
  /\ \E p \in 1..Len(ValueProps), value \in Values, tokens \in TokenSets :
       input = [fn |-> "normalizeCSSValue", property |-> p, value |-> value, tokens |-> tokens]
  /\ output = <<>>
  /\ last = [op |-> "none"]
  /\ nops = 0

NormalizeValue ==
  /\ output = <<>>
  /\ output' = [ret |-> normalizeCSSValue(ValueProps[input.property].name, input.value, input.tokens)]
  /\ last' = [op |-> "normalizeCSSValue"]
  /\ UNCHANGED <<regVars, nameVars, critVars, input, nops, hostVars>>

NextValues == NormalizeValue

SpecValues == InitValues /\ [][NextValues]_vars

\* the entry of Numbers for the number n
NumberEntry(n) == CHOOSE i \in 1..Len(Numbers) : Numbers[i].n = n

(***************************************************************************)
(* C12: a bare number is given its unit by the family of the property      *)
(* alone: for a spacing property the result is a quarter of the number     *)
(* followed by rem, for a unitless property the number itself, for any     *)
(* other property the number followed by px.                               *)
(***************************************************************************)
C12_UnitByFamily ==
  (output # <<>> /\ input.value.type = "number") =>
    LET family == ValueProps[input.property].family
        number == Numbers[NumberEntry(input.value.v[1])]
    IN output.ret = CASE family = "spacing"  -> number.quarter \o S_rem
                      [] family = "unitless" -> number.bare
                      [] family = "other"    -> number.bare \o S_pxu

(***************************************************************************)
(* Optimizer: a style object is a function from property names to values   *)
(***************************************************************************)
\* the sided families: the umbrella shorthand, the four sides, the two axis shorthands
MarginFamily ==
  [umbrella |-> "margin", top |-> "marginTop", right |-> "marginRight",
   bottom |-> "marginBottom", left |-> "marginLeft",
   block |-> "marginBlock", inline |-> "marginInline"]

PaddingFamily ==
  [umbrella |-> "padding", top |-> "paddingTop", right |-> "paddingRight",
   bottom |-> "paddingBottom", left |-> "paddingLeft",
   block |-> "paddingBlock", inline |-> "paddingInline"]

Families == {MarginFamily, PaddingFamily}

Sides(f) == {f.top, f.right, f.bottom, f.left}

Has(style, k) == k \in DOMAIN style

Without(style, keys) == [k \in DOMAIN style \ keys |-> style[k]]

With(style, key, value) ==
  [k \in DOMAIN style \cup {key} |-> IF k = key THEN value ELSE style[k]]

\* the shorthand keys and the full property names they expand to
ShorthandMap ==
  [m  |-> <<"margin">>,  mt |-> <<"marginTop">>,  mr |-> <<"marginRight">>,
   mb |-> <<"marginBottom">>, ml |-> <<"marginLeft">>,
   mx |-> <<"marginLeft", "marginRight">>, my |-> <<"marginTop", "marginBottom">>,
   p  |-> <<"padding">>, pt |-> <<"paddingTop">>, pr |-> <<"paddingRight">>,
   pb |-> <<"paddingBottom">>, pl |-> <<"paddingLeft">>,
   px |-> <<"paddingLeft", "paddingRight">>, py |-> <<"paddingTop", "paddingBottom">>,
   bg |-> <<"backgroundColor">>, rounded |-> <<"borderRadius">>, shadow |-> <<"boxShadow">>]

IsShorthand(k) == k \in DOMAIN ShorthandMap

\* shorthand keys expand to full names; a full name in the object wins over a shorthand for it
normalizeProps(style) ==
  LET full     == {k \in DOMAIN style : ~IsShorthand(k)}
      short    == {k \in DOMAIN style : IsShorthand(k)}
      expanded == UNION {Range(ShorthandMap[k]) : k \in short}
      SourceOf(n) == CHOOSE k \in short : n \in Range(ShorthandMap[k])
  IN [n \in full \cup expanded |-> IF n \in full THEN style[n] ELSE style[SourceOf(n)]]

\* two equal sides of one axis become the axis shorthand
MergeAxis(style, a, b, axis) ==
  IF Has(style, a) /\ Has(style, b) /\ style[a] = style[b]
  THEN With(Without(style, {a, b}), axis, style[a])
  ELSE style

\* a merge that collapses the block axis only
mergeFamily_blockOnly(style, f) ==
  IF Has(style, f.top) /\ Has(style, f.bottom) /\ style[f.top] = style[f.bottom]
  THEN With(Without(style, {f.top, f.bottom}), f.block, style[f.top])
  ELSE style

\* a merge that writes the family shorthand as soon as three sides agree
mergeFamily_threeOfFour(style, f) ==
  LET agreeing(v) == {k \in Sides(f) : Has(style, k) /\ style[k] = v}
      vals == {style[k] : k \in Sides(f) \cap DOMAIN style}
  IN IF \E v \in vals : Cardinality(agreeing(v)) >= 3
     THEN LET v == CHOOSE v \in vals : Cardinality(agreeing(v)) >= 3
          IN With(Without(style, Sides(f)), f.umbrella, v)
     ELSE style

\* both axes, then two equal axis shorthands become the family shorthand
mergeFamily(style, f) ==
  LET blocked == MergeAxis(style, f.top, f.bottom, f.block)
      axes    == MergeAxis(blocked, f.left, f.right, f.inline)
  IN IF Has(axes, f.block) /\ Has(axes, f.inline) /\ axes[f.block] = axes[f.inline]
     THEN With(Without(axes, {f.block, f.inline}), f.umbrella, axes[f.block])
     ELSE axes

mergeProperties(style) == mergeFamily(mergeFamily(style, MarginFamily), PaddingFamily)

\* a resolution that keeps the umbrella and drops the sides
resolveConflicts_umbrellaWins(style) ==
  Without(style, UNION {Sides(f) : f \in {g \in Families : Has(style, g.umbrella)}})

\* an umbrella that stands next to sides of its family is dropped
resolveConflicts(style) ==
  Without(style, {f.umbrella : f \in {g \in Families : Sides(g) \cap DOMAIN style # {}}})

getMinimalProps(style) == mergeProperties(resolveConflicts(normalizeProps(style)))

(***************************************************************************)
(* One style object handed to the optimizer                                *)
(***************************************************************************)
\* the entries a style object may hold: 0 stands for an entry that is left out
StyleChoices ==
  [margin : {0, 4}, marginTop : {0, 4, 8}, marginRight : {0, 4, 8},
   marginBottom : {0, 4, 8}, marginLeft : {0, 4, 8},
   paddingTop : {0, 2}, paddingBottom : {0, 2}, color : {0, 1}, mx : {0, 4}]

StyleOf(c) ==
  [k \in {k \in DOMAIN c : c[k] # 0} |-> IF k = "color" THEN S_red ELSE c[k]]

Styles == {StyleOf(c) : c \in StyleChoices}

\* the object holds full property names only, as normalizeProps leaves it
IsNormalized(style) == \A k \in DOMAIN style : ~IsShorthand(k)

InitOptimizer ==
  /\ RegistryInit
  /\ HostIdle
  /\ NamesIdle
  /\ ExtractorIdle
  /\ \E style \in Styles : input = [fn |-> "optimizer", style |-> style]
  /\ output = <<>>
  /\ last = [op |-> "none"]
  /\ nops = 0

MergeProperties ==
  /\ output = <<>>
  /\ IsNormalized(input.style)
  /\ output' = [ret |-> mergeProperties(input.style)]
  /\ last' = [op |-> "mergeProperties"]
  /\ UNCHANGED <<regVars, nameVars, critVars, input, nops, hostVars>>

ResolveConflicts ==
  /\ output = <<>>
  /\ IsNormalized(input.style)
  /\ output' = [ret |-> resolveConflicts(input.style)]
  /\ last' = [op |-> "resolveConflicts"]
  /\ UNCHANGED <<regVars, nameVars, critVars, input, nops, hostVars>>

GetMinimalProps ==
  /\ output = <<>>
  /\ output' = [ret |-> getMinimalProps(input.style)]
  /\ last' = [op |-> "getMinimalProps"]
  /\ UNCHANGED <<regVars, nameVars, critVars, input, nops, hostVars>>

NextOptimizer ==
  \/ MergeProperties
  \/ ResolveConflicts
  \/ GetMinimalProps

SpecOptimizer == InitOptimizer /\ [][NextOptimizer]_vars

\* both sides of an axis are in the object with one value
AxisAgrees(style, a, b) == Has(style, a) /\ Has(style, b) /\ style[a] = style[b]

\* all four sides are in the object with one value
AllAgree(style, f) ==
  /\ Sides(f) \subseteq DOMAIN style
  /\ \A a, b \in Sides(f) : style[a] = style[b]

\* key k is in both objects with one value, or in neither
SameAt(a, b, k) == (Has(a, k) <=> Has(b, k)) /\ (Has(a, k) => a[k] = b[k])

FamilyKeys(f) == Sides(f) \cup {f.umbrella, f.block, f.inline}

AxisOf(f, side) == IF side \in {f.top, f.bottom} THEN f.block ELSE f.inline

\* the axis alias (my, mx, py, px) that covers a side
AliasOf(f, side) ==
  CASE f = MarginFamily  -> (IF side \in {f.top, f.bottom} THEN "my" ELSE "mx")
    [] f = PaddingFamily -> (IF side \in {f.top, f.bottom} THEN "py" ELSE "px")

\* the value the object gives the side, the most specific entry first; 0 when it gives none
Effective(style, f, side) ==
  IF Has(style, side) THEN style[side]
  ELSE IF Has(style, AxisOf(f, side)) THEN style[AxisOf(f, side)]
  ELSE IF Has(style, AliasOf(f, side)) THEN style[AliasOf(f, side)]
  ELSE IF Has(style, f.umbrella) THEN style[f.umbrella]
  ELSE 0

\* the call replaced sides by a shorthand
MergedSomething == DOMAIN output.ret \ DOMAIN normalizeProps(input.style) # {}

C15_SidesWin ==
  /\ last.op = "resolveConflicts" =>
       LET s == input.style
           r == output.ret
           Conflict(f) == Has(s, f.umbrella) /\ Sides(f) \cap DOMAIN s # {}
       IN /\ \A f \in Families : Conflict(f) => ~Has(r, f.umbrella)
          /\ \A k \in (DOMAIN s \cup DOMAIN r) \ {f.umbrella : f \in {g \in Families : Conflict(g)}} :
               SameAt(s, r, k)
          /\ (\A f \in Families : ~Conflict(f)) => r = s
  /\ (last.op = "getMinimalProps" /\ IsNormalized(input.style)) =>
       output.ret = mergeProperties(Without(input.style,
                      {f.umbrella : f \in {g \in Families :
                          Has(input.style, g.umbrella) /\ Sides(g) \cap DOMAIN input.style # {}}}))

\* margin stood next to marginTop, and a property outside the families was kept
C15_Witness ==
  /\ last.op = "resolveConflicts"
  /\ Has(input.style, "margin")
  /\ Has(input.style, "marginTop")
  /\ input.style["marginTop"] # input.style["margin"]
  /\ Has(input.style, "color")
  /\ ~Has(output.ret, "margin")
  /\ output.ret["marginTop"] = input.style["marginTop"]

\* the rules of an output of extract: its lines
OutputRules(text) == IF text = <<>> THEN <<>> ELSE Split(text, NewLine)

(***************************************************************************)
(* C16: extract never alters a rule: every rule of the critical and of the *)
(* non-critical output is, character by character, a rule of the input     *)
(* stylesheet.                                                             *)
(***************************************************************************)
C16_RuleTextUnchanged ==
  (last.op = "extract" /\ extractor.config.enabled) =>
    \A rule \in Range(OutputRules(last.critical)) \cup Range(OutputRules(last.nonCritical)) :
      \E i \in 1..Len(last.sheet) : rule = RuleTexts[last.sheet[i]]

(***************************************************************************)
(* The selectors of the rules, written out by hand, and whether each is    *)
(* one of the above-the-fold selectors                                     *)
(***************************************************************************)
RuleSelectorParts ==
  << {[selector |-> S_dheader, aboveFold |-> TRUE]},
     {[selector |-> S_dfooter, aboveFold |-> FALSE]},
     {[selector |-> S_header, aboveFold |-> TRUE], [selector |-> S_dhero, aboveFold |-> TRUE]},
     {[selector |-> S_dhero, aboveFold |-> TRUE]},
     {[selector |-> S_header, aboveFold |-> TRUE]} >>

\* the extractor was constructed without forceInclude and exclude entries
NoLists(self) == self.config.forceInclude = <<>> /\ self.config.exclude = <<>>

(***************************************************************************)
(* C17: after autoDetect over a stylesheet of top-level rules, on an       *)
(* extractor without marks made by hand and without include / exclude      *)
(* lists, every selector of every rule is classified: the above-the-fold   *)
(* selectors are critical and the others are not; and an enabled extract   *)
(* of the same stylesheet puts a rule in the critical output exactly when  *)
(* one of its selectors is above the fold.                                 *)
(***************************************************************************)
C17_AutoDetectClassifies ==
  (/\ last.op = "autoDetect"
   /\ manual = <<>>
   /\ NoLists(extractor)
   /\ extractor.config.enabled
   /\ \A i \in 1..Len(last.sheet) : last.sheet[i] # 4) =>
    LET sheet == last.sheet
        AboveFold(i) == \E part \in RuleSelectorParts[sheet[i]] : part.aboveFold
        result == extract(extractor, SheetText(sheet))
    IN /\ \A i \in 1..Len(sheet) : \A part \in RuleSelectorParts[sheet[i]] :
            /\ isCritical(extractor, part.selector) = part.aboveFold
            /\ part.selector \in extractor.criticalSelectors \cup extractor.nonCriticalSelectors
       /\ result.critical = RulesAt(sheet, {i \in 1..Len(sheet) : AboveFold(i)})
       /\ result.nonCritical = RulesAt(sheet, {i \in 1..Len(sheet) : ~AboveFold(i)})

DistinctRegistered(r) == {CanonicalDecl[d] : d \in {e \in DeclIds : calls[r][e] > 0}}

(***************************************************************************)
(* C19: for a registry filled by registerAtom calls only, getStats reports *)
(* as uniqueAtoms the number of distinct declarations registered, as       *)
(* totalUsage the number of registerAtom calls made, never less than       *)
(* uniqueAtoms, and as averageReuse their quotient rounded to hundredths,  *)
(* 0 for an empty registry.                                                *)
(***************************************************************************)
C19_StatsCountCalls ==
  \A r \in Regs : ~imported[r] =>
    LET stats  == getStats(registry[r])
        atoms  == Cardinality(DistinctRegistered(r))
        usage  == SumSeq(calls[r])
        off    == 100 * usage - stats.averageReuse * atoms
    IN /\ stats.uniqueAtoms = atoms
       /\ stats.totalUsage = usage
       /\ stats.totalUsage >= stats.uniqueAtoms
       /\ IF atoms = 0 THEN stats.averageReuse = 0
          ELSE 2 * off < atoms /\ 2 * off >= 0 - atoms

(***************************************************************************)
(* Babel plugin: atomic CSS for one style object.  An object is the        *)
(* sequence of its entries <<key, value>> in insertion order.              *)
(***************************************************************************)
ObjectValue(entries) == [type |-> "object", v |-> entries]

PROPERTY_MAP ==
  << <<<<109>>, <<109, 97, 114, 103, 105, 110>>>>,
     <<<<109, 116>>, <<109, 97, 114, 103, 105, 110, 45, 116, 111, 112>>>>,
     <<<<109, 114>>, <<109, 97, 114, 103, 105, 110, 45, 114, 105, 103, 104, 116>>>>,
     <<<<109, 98>>, <<109, 97, 114, 103, 105, 110, 45, 98, 111, 116, 116, 111, 109>>>>,
     <<<<109, 108>>, <<109, 97, 114, 103, 105, 110, 45, 108, 101, 102, 116>>>>,
     <<<<109, 120>>, <<109, 97, 114, 103, 105, 110, 45, 105, 110, 108, 105, 110, 101>>>>,
     <<<<109, 121>>, <<109, 97, 114, 103, 105, 110, 45, 98, 108, 111, 99, 107>>>>,
     <<<<112>>, <<112, 97, 100, 100, 105, 110, 103>>>>,
     <<<<112, 116>>, <<112, 97, 100, 100, 105, 110, 103, 45, 116, 111, 112>>>>,
     <<<<112, 114>>, <<112, 97, 100, 100, 105, 110, 103, 45, 114, 105, 103, 104, 116>>>>,
     <<<<112, 98>>, <<112, 97, 100, 100, 105, 110, 103, 45, 98, 111, 116, 116, 111, 109>>>>,
     <<<<112, 108>>, <<112, 97, 100, 100, 105, 110, 103, 45, 108, 101, 102, 116>>>>,
     <<<<112, 120>>, <<112, 97, 100, 100, 105, 110, 103, 45, 105, 110, 108, 105, 110, 101>>>>,
     <<<<112, 121>>, <<112, 97, 100, 100, 105, 110, 103, 45, 98, 108, 111, 99, 107>>>>,
     <<<<119>>, <<119, 105, 100, 116, 104>>>>,
     <<<<104>>, <<104, 101, 105, 103, 104, 116>>>>,
     <<<<109, 105, 110, 87>>, <<109, 105, 110, 45, 119, 105, 100, 116, 104>>>>,
     <<<<109, 105, 110, 72>>, <<109, 105, 110, 45, 104, 101, 105, 103, 104, 116>>>>,
     <<<<109, 97, 120, 87>>, <<109, 97, 120, 45, 119, 105, 100, 116, 104>>>>,
     <<<<109, 97, 120, 72>>, <<109, 97, 120, 45, 104, 101, 105, 103, 104, 116>>>>,
     <<<<98, 103>>, <<98, 97, 99, 107, 103, 114, 111, 117, 110, 100, 45, 99, 111, 108, 111, 114>>>>,
     <<<<98, 103, 67, 111, 108, 111, 114>>, <<98, 97, 99, 107, 103, 114, 111, 117, 110, 100, 45, 99, 111, 108, 111, 114>>>>,
     <<<<114, 111, 117, 110, 100, 101, 100>>, <<98, 111, 114, 100, 101, 114, 45, 114, 97, 100, 105, 117, 115>>>>,
     <<<<114, 111, 117, 110, 100, 101, 100, 84, 111, 112>>, <<98, 111, 114, 100, 101, 114, 45, 116, 111, 112, 45, 108, 101, 102, 116, 45, 114, 97, 100, 105, 117, 115, 32, 98, 111, 114, 100, 101, 114, 45, 116, 111, 112, 45, 114, 105, 103, 104, 116, 45, 114, 97, 100, 105, 117, 115>>>>,
     <<<<114, 111, 117, 110, 100, 101, 100, 66, 111, 116, 116, 111, 109>>, <<98, 111, 114, 100, 101, 114, 45, 98, 111, 116, 116, 111, 109, 45, 108, 101, 102, 116, 45, 114, 97, 100, 105, 117, 115, 32, 98, 111, 114, 100, 101, 114, 45, 98, 111, 116, 116, 111, 109, 45, 114, 105, 103, 104, 116, 45, 114, 97, 100, 105, 117, 115>>>>,
     <<<<114, 111, 117, 110, 100, 101, 100, 76, 101, 102, 116>>, <<98, 111, 114, 100, 101, 114, 45, 116, 111, 112, 45, 108, 101, 102, 116, 45, 114, 97, 100, 105, 117, 115, 32, 98, 111, 114, 100, 101, 114, 45, 98, 111, 116, 116, 111, 109, 45, 108, 101, 102, 116, 45, 114, 97, 100, 105, 117, 115>>>>,
     <<<<114, 111, 117, 110, 100, 101, 100, 82, 105, 103, 104, 116>>, <<98, 111, 114, 100, 101, 114, 45, 116, 111, 112, 45, 114, 105, 103, 104, 116, 45, 114, 97, 100, 105, 117, 115, 32, 98, 111, 114, 100, 101, 114, 45, 98, 111, 116, 116, 111, 109, 45, 114, 105, 103, 104, 116, 45, 114, 97, 100, 105, 117, 115>>>> >>

PSEUDO_MAP ==
  << <<<<95, 104, 111, 118, 101, 114>>, <<58, 104, 111, 118, 101, 114>>>>,
     <<<<95, 102, 111, 99, 117, 115>>, <<58, 102, 111, 99, 117, 115>>>>,
     <<<<95, 97, 99, 116, 105, 118, 101>>, <<58, 97, 99, 116, 105, 118, 101>>>>,
     <<<<95, 100, 105, 115, 97, 98, 108, 101, 100>>, <<58, 100, 105, 115, 97, 98, 108, 101, 100>>>>,
     <<<<95, 118, 105, 115, 105, 116, 101, 100>>, <<58, 118, 105, 115, 105, 116, 101, 100>>>>,
     <<<<95, 102, 111, 99, 117, 115, 86, 105, 115, 105, 98, 108, 101>>, <<58, 102, 111, 99, 117, 115, 45, 118, 105, 115, 105, 98, 108, 101>>>>,
     <<<<95, 102, 111, 99, 117, 115, 87, 105, 116, 104, 105, 110>>, <<58, 102, 111, 99, 117, 115, 45, 119, 105, 116, 104, 105, 110>>>>,
     <<<<95, 99, 104, 101, 99, 107, 101, 100>>, <<58, 99, 104, 101, 99, 107, 101, 100>>>>,
     <<<<95, 98, 101, 102, 111, 114, 101>>, <<58, 58, 98, 101, 102, 111, 114, 101>>>>,
     <<<<95, 97, 102, 116, 101, 114>>, <<58, 58, 97, 102, 116, 101, 114>>>>,
     <<<<95, 112, 108, 97, 99, 101, 104, 111, 108, 100, 101, 114>>, <<58, 58, 112, 108, 97, 99, 101, 104, 111, 108, 100, 101, 114>>>>,
     <<<<95, 115, 101, 108, 101, 99, 116, 105, 111, 110>>, <<58, 58, 115, 101, 108, 101, 99, 116, 105, 111, 110>>>>,
     <<<<95, 102, 105, 114, 115, 116>>, <<58, 102, 105, 114, 115, 116, 45, 99, 104, 105, 108, 100>>>>,
     <<<<95, 108, 97, 115, 116>>, <<58, 108, 97, 115, 116, 45, 99, 104, 105, 108, 100>>>>,
     <<<<95, 111, 100, 100>>, <<58, 110, 116, 104, 45, 99, 104, 105, 108, 100, 40, 111, 100, 100, 41>>>>,
     <<<<95, 101, 118, 101, 110>>, <<58, 110, 116, 104, 45, 99, 104, 105, 108, 100, 40, 101, 118, 101, 110, 41>>>> >>

DEFAULT_BREAKPOINTS ==
  << <<<<115, 109>>, <<54, 52, 48, 112, 120>>>>,
     <<<<109, 100>>, <<55, 54, 56, 112, 120>>>>,
     <<<<108, 103>>, <<49, 48, 50, 52, 112, 120>>>>,
     <<<<120, 108>>, <<49, 50, 56, 48, 112, 120>>>>,
     <<<<50, 120, 108>>, <<49, 53, 51, 54, 112, 120>>>> >>

S_base == <<98, 97, 115, 101>>

responsiveKeys == <<S_base, <<115, 109>>, <<109, 100>>, <<108, 103>>, <<120, 108>>, <<50, 120, 108>>>>

\* str.replace(/[A-Z]/g, (m) => `-${m.toLowerCase()}`)
RECURSIVE camelToKebab(_)
camelToKebab(str) ==
  IF str = <<>> THEN <<>>
  ELSE IF Head(str) >= 65 /\ Head(str) <= 90
       THEN <<45, Head(str) + 32>> \o camelToKebab(Tail(str))
       ELSE <<Head(str)>> \o camelToKebab(Tail(str))

resolveCSSProperty(property) ==
  IF Truthy(MapGet(PROPERTY_MAP, property)) THEN MapGet(PROPERTY_MAP, property)
  ELSE camelToKebab(property)

resolvePseudoSelector(pseudo) ==
  IF Truthy(MapGet(PSEUDO_MAP, pseudo)) THEN MapGet(PSEUDO_MAP, pseudo)
  ELSE SliceFrom(pseudo, 1)

isPseudoSelector(prop) == StartsWith(prop, <<95>>)

isResponsiveValue(value) ==
  /\ value.type = "object"
  /\ \E i \in 1..Len(value.v) : value.v[i][1] \in Range(responsiveKeys)

\* `${value}` of a value that is not an object
ValueToString(value) ==
  CASE value.type = "null"      -> <<110, 117, 108, 108>>
    [] value.type = "undefined" -> <<117, 110, 100, 101, 102, 105, 110, 101, 100>>
    [] value.type = "string"    -> value.v
    [] value.type = "number"    -> IntToString(value.v[1])
    [] value.type = "boolean"   -> IF value.v = <<1>> THEN S_true ELSE S_false

\* the class name of a declaration inside a breakpoint: the breakpoint is its variant
generateResponsiveClassName(breakpoint, property, value, options) ==
  generateClassNameBabel(property, ValueToString(value), options.production,
                         options.classPrefix, breakpoint)

\* rule.replace(/\{/, replacement): the first '{' only
ReplaceFirstBrace(rule, replacement) ==
  LET i == IndexOf(rule, LBrace, 0)
  IN IF i < 0 THEN rule
     ELSE SubSeq(rule, 1, i) \o replacement \o SliceFrom(rule, i + 1)

\* `.${className} { ${cssProperty}: ${cssValue}; }`
BaseRule(className, cssProperty, cssValue) ==
  <<46>> \o className \o <<32, 123, 32>> \o cssProperty \o <<58, 32>> \o cssValue \o <<59, 32, 125>>

\* `@media (min-width: ${mediaQuery}) { ${base rule} }`
MediaRule(mediaQuery, className, cssProperty, cssValue) ==
  <<64, 109, 101, 100, 105, 97, 32, 40, 109, 105, 110, 45, 119, 105, 100, 116, 104, 58, 32>> \o mediaQuery \o <<41, 32, 123, 32>>
    \o BaseRule(className, cssProperty, cssValue) \o <<32, 125>>

NoRules == [classNames |-> <<>>, cssRules |-> <<>>]

\* cssRules.set(className, rule); classNames.push(className)
AddRule(acc, className, rule) ==
  [classNames |-> Append(acc.classNames, className),
   cssRules   |-> MapSet(acc.cssRules, className, rule)]

\* the rule of a regular entry, under the class name it declares
AddBaseRule(acc, className, cssProperty, cssValue) ==
  AddRule(acc, className, BaseRule(className, cssProperty, cssValue))

\* options.breakpoints || DEFAULT_BREAKPOINTS
BreakpointsOf(options) ==
  IF options.breakpoints.given THEN options.breakpoints.map ELSE DEFAULT_BREAKPOINTS

\* breakpoints[breakpoint] || breakpoint
MediaQueryOf(breakpoints, breakpoint) ==
  IF Truthy(MapGet(breakpoints, breakpoint)) THEN MapGet(breakpoints, breakpoint) ELSE breakpoint

\* the rule of one entry of a responsive value: plain at 'base', in a media query elsewhere
AddBreakpointRule(acc, breakpoint, mediaQuery, className, cssProperty, cssValue) ==
  AddRule(acc, className,
          IF breakpoint = S_base
          THEN BaseRule(className, cssProperty, cssValue)
          ELSE MediaRule(mediaQuery, className, cssProperty, cssValue))

\* the rules of a nested result, each with the pseudo-selector put before its first '{'
RECURSIVE AddPseudoRules(_, _, _)
AddPseudoRules(acc, nested, pseudo) ==
  IF nested = <<>> THEN acc
  ELSE AddPseudoRules(AddRule(acc, Head(nested)[1],
                              ReplaceFirstBrace(Head(nested)[2], pseudo \o <<32, 123>>)),
                      Tail(nested), pseudo)

\* one rule per entry of a responsive value
RECURSIVE AddResponsiveRules(_, _, _, _)
AddResponsiveRules(acc, property, entries, options) ==
  IF entries = <<>> THEN acc
  ELSE AddResponsiveRules(
         AddBreakpointRule(acc, Head(entries)[1],
           MediaQueryOf(BreakpointsOf(options), Head(entries)[1]),
           generateResponsiveClassName(Head(entries)[1], property, Head(entries)[2], options),
           resolveCSSProperty(property),
           normalizeCSSValue(property, Head(entries)[2], options.tokens)),
         property, Tail(entries), options)

\* the loop of generateAtomicCSS over the entries of the object
RECURSIVE GenerateFrom(_, _, _)
GenerateFrom(entries, acc, options) ==
  IF entries = <<>> THEN acc
  ELSE LET property == Head(entries)[1]
           value    == Head(entries)[2]
       IN GenerateFrom(Tail(entries),
            IF value.type \in {"undefined", "null"} THEN acc
            ELSE IF isPseudoSelector(property)
            THEN AddPseudoRules(acc, GenerateFrom(value.v, NoRules, options).cssRules,
                                resolvePseudoSelector(property))
            ELSE IF isResponsiveValue(value)
            THEN AddResponsiveRules(acc, property, value.v, options)
            ELSE AddBaseRule(acc,
                   generateClassNameBabel(property, ValueToString(value),
                                          options.production, options.classPrefix, <<>>),
                   resolveCSSProperty(property),
                   normalizeCSSValue(property, value, options.tokens)),
            options)

\* the result of generateAtomicCSS: the class names, the rules and the joined class string
ResultOf(result) ==
  [classNames |-> result.classNames,
   cssRules   |-> result.cssRules,
   className  |-> Join(result.classNames, <<32>>)]

\* generateAtomicCSS of the Babel plugin
babelGenerateAtomicCSS(styles, options) == ResultOf(GenerateFrom(styles, NoRules, options))

\* registerAtoms of the registry: one registerAtom per entry that is not null or undefined
RECURSIVE RegisterFrom(_, _)
RegisterFrom(acc, entries) ==
  IF entries = <<>> THEN acc
  ELSE LET property == Head(entries)[1]
           value    == Head(entries)[2]
           res      == registerAtom(acc.reg, property, value.v)
       IN RegisterFrom(IF value.type \in {"undefined", "null"} THEN acc
                       ELSE [reg |-> res.reg, classNames |-> Append(acc.classNames, res.ret)],
                       Tail(entries))

registerAtoms(self, styles) == RegisterFrom([reg |-> self, classNames |-> <<>>], styles)

(***************************************************************************)
(* One style object handed to generateAtomicCSS and to registerAtoms       *)
(***************************************************************************)
S_m  == <<109>>
S_p  == <<112>>
S_bg == <<98, 103>>
S_w  == <<119>>
S_md == <<109, 100>>
S_blue == <<98, 108, 117, 101>>
S__hover == <<95, 104, 111, 118, 101, 114>>
S_display == <<100, 105, 115, 112, 108, 97, 121>>
S_flex == <<102, 108, 101, 120>>

\* the entries a style object is made of; produces: the declarations the entry stands for
EntryPool ==
  << [entry |-> <<S_color, StringValue(S_red)>>, flat |-> TRUE,  produces |-> 1],
     [entry |-> <<S_p, NumberValue(4)>>,          flat |-> FALSE, produces |-> 1],
     [entry |-> <<S_bg, NullValue>>,              flat |-> TRUE,  produces |-> 0],
     [entry |-> <<S_m, UndefinedValue>>,          flat |-> TRUE,  produces |-> 0],
     [entry |-> <<S__hover, ObjectValue(<< <<S_color, StringValue(S_blue)>>,
                                           <<S_bg, NullValue>> >>)>>,
                                                  flat |-> FALSE, produces |-> 1],
     [entry |-> <<S_w, ObjectValue(<< <<S_base, NumberValue(100)>>,
                                      <<S_md, NullValue>> >>)>>,
                                                  flat |-> FALSE, produces |-> 1],
     [entry |-> <<S_display, StringValue(S_flex)>>, flat |-> TRUE, produces |-> 1] >>

\* the object that holds the entries of the pool at the positions in picked, in pool order
StyleObject(picked) ==
  LET In(i) == i \in picked
      at == SelectSeq([i \in 1..Len(EntryPool) |-> i], In)
  IN [n \in 1..Len(at) |-> EntryPool[at[n]].entry]

PluginOptionSets ==
  {[production |-> production, classPrefix |-> Undefined,
    tokens |-> [given |-> FALSE, map |-> <<>>],
    breakpoints |-> [given |-> FALSE, map |-> <<>>]] : production \in BOOLEAN}

InitStyles ==
  /\ RegistryInit
  /\ HostIdle
  /\ NamesIdle
  /\ ExtractorIdle
  /\ \E picked \in SUBSET (1..Len(EntryPool)), options \in PluginOptionSets :
       input = [fn |-> "generateAtomicCSS", picked |-> picked, options |-> options]
  /\ output = <<>>
  /\ last = [op |-> "none"]
  /\ nops = 0

GenerateAtomicCSS ==
  /\ output = <<>>
  /\ output' = babelGenerateAtomicCSS(StyleObject(input.picked), input.options)
  /\ last' = [op |-> "generateAtomicCSS"]
  /\ UNCHANGED <<regVars, nameVars, critVars, input, nops, hostVars>>

\* registerAtoms on a newly constructed registry, for objects of strings, null and undefined
RegisterAtoms ==
  /\ output = <<>>
  /\ \A i \in input.picked : EntryPool[i].flat
  /\ output' = registerAtoms(NewRegistry, StyleObject(input.picked))
  /\ last' = [op |-> "registerAtoms"]
  /\ UNCHANGED <<regVars, nameVars, critVars, input, nops, hostVars>>

NextStyles ==
  \/ GenerateAtomicCSS
  \/ RegisterAtoms

SpecStyles == InitStyles /\ [][NextStyles]_vars

\* the declarations the picked entries stand for
Expected(picked) == SumSeq([i \in 1..Len(EntryPool) |-> IF i \in picked THEN EntryPool[i].produces ELSE 0])

\* the rule declares a property without a value
EmptyDeclaration(rule) == Includes(rule, <<58, 32, 59>>)

(***************************************************************************)
(* C20: an entry whose value is null or undefined, at the top of the       *)
(* object, inside a pseudo-selector block or inside a responsive value,    *)
(* gives no class name and no rule, and the other entries give one class   *)
(* name and one rule each; an object without entries, or with null and     *)
(* undefined entries only, gives an empty class string and no rules.       *)
(***************************************************************************)
C20_NullProducesNothing ==
  /\ last.op = "generateAtomicCSS" =>
       /\ Len(output.classNames) = Expected(input.picked)
       /\ Len(output.cssRules) = Expected(input.picked)
       /\ \A i \in 1..Len(output.cssRules) : ~EmptyDeclaration(output.cssRules[i][2])
       /\ Expected(input.picked) = 0 => output.className = <<>>
  /\ last.op = "registerAtoms" =>
       /\ Len(output.classNames) = Expected(input.picked)
       /\ Len(output.reg.atoms) = Expected(input.picked)

(***************************************************************************)
(* The runtime style system: css() over one long-lived registry, behind a  *)
(* bounded cache, and getCSSRules() with or without cascade layers         *)
(***************************************************************************)
MaxCacheSize == 2    \* style objects the runtime cache remembers
MaxSystemOps == 4    \* calls made on one style system

S_layer_reset == <<114, 101, 115, 101, 116>>
S_utilities   == <<117, 116, 105, 108, 105, 116, 105, 101, 115>>
S_catch_all   == <<99, 111, 109, 112, 111, 110, 101, 110, 116, 115>>
S_at_layer    == <<64, 108, 97, 121, 101, 114, 32>>
S_comma_sp    == <<44, 32>>
S_block_open  == <<32, 123>>

DefaultLayerOrder == <<S_layer_reset, S_base, S_utilities, S_catch_all>>

\* the layer configurations a style system is created with
LayerConfigs ==
  { [enabled |-> FALSE, order |-> DefaultLayerOrder],
    [enabled |-> TRUE,  order |-> DefaultLayerOrder],
    [enabled |-> TRUE,  order |-> <<S_base, S_utilities>>],
    [enabled |-> TRUE,  order |-> <<S_utilities, S_base>>] }

\* the style objects css() is called with
SystemStyles ==
  << << <<S_color, StringValue(S_red)>> >>,
     << <<S_color, StringValue(S_red)>>, <<S_display, StringValue(S_flex)>> >>,
     << <<S_bg, NullValue>>, <<S_display, StringValue(S_flex)>> >>,
     << <<S_margin, StringValue(S_0_auto)>> >>,
     << >> >>

SystemStyleIds == 1..Len(SystemStyles)

createStyleSystem(layers) ==
  [layers |-> layers, registry |-> NewRegistry, cssRules |-> <<>>, layerRules |-> <<>>,
   cache |-> <<>>, hits |-> 0, misses |-> 0]

\* the declarations of a style object, whatever their order: the key of the cache
CacheKey(style) ==
  {<<style[i][1], style[i][2].v>> : i \in {j \in 1..Len(style) : style[j][2].type = "string"}}

\* the cache is bounded: the oldest entry makes room for a new one
CachePut(cache, key, className) ==
  IF Len(cache) >= MaxCacheSize THEN Append(Tail(cache), <<key, className>>)
  ELSE Append(cache, <<key, className>>)

\* a selector made of one class goes to utilities, a bare element or '*' to base, the rest to the catch-all
classifyLayer(selector) ==
  IF selector # <<>> /\ Head(selector) = 46 /\ \A i \in 2..Len(selector) : IsWordChar(selector[i]) \/ selector[i] = 45
  THEN S_utilities
  ELSE IF selector # <<>> /\ \A i \in 1..Len(selector) : IsAlnum(selector[i]) \/ selector[i] = 42
  THEN S_base
  ELSE S_catch_all

\* a step that files the rule of a declaration under its layer on every call
AddAtom_everyCall(acc, registered, property, value) ==
  [sys |-> [acc.sys EXCEPT
              !.registry = registered.reg,
              !.cssRules = MapSet(@, registered.ret, BaseRule(registered.ret, KebabCase(property), value)),
              !.layerRules = Append(@, <<classifyLayer(<<46>> \o registered.ret),
                                         BaseRule(registered.ret, KebabCase(property), value)>>)],
   classNames |-> Append(acc.classNames, registered.ret)]

\* one declaration: registered, and its rule stored under its class name unless one is stored already
AddAtom(acc, registered, property, value) ==
  [sys |-> [acc.sys EXCEPT
              !.registry = registered.reg,
              !.cssRules = IF MapHas(@, registered.ret) THEN @
                           ELSE MapSet(@, registered.ret, BaseRule(registered.ret, KebabCase(property), value)),
              !.layerRules = IF MapHas(acc.sys.cssRules, registered.ret) THEN @
                             ELSE Append(@, <<classifyLayer(<<46>> \o registered.ret),
                                              BaseRule(registered.ret, KebabCase(property), value)>>)],
   classNames |-> Append(acc.classNames, registered.ret)]

\* the declarations of a style object in turn; null and undefined values are skipped
RECURSIVE CssFrom(_, _)
CssFrom(acc, entries) ==
  IF entries = <<>> THEN acc
  ELSE IF Head(entries)[2].type \in {"undefined", "null"} THEN CssFrom(acc, Tail(entries))
  ELSE CssFrom(AddAtom(acc, registerAtom(acc.sys.registry, Head(entries)[1], Head(entries)[2].v),
                       Head(entries)[1], Head(entries)[2].v),
               Tail(entries))

\* a miss: the class string of the processed object is remembered
CssMiss(key, processed) ==
  [sys |-> [processed.sys EXCEPT !.cache = CachePut(@, key, Join(processed.classNames, <<32>>)),
                                 !.misses = @ + 1],
   className |-> Join(processed.classNames, <<32>>)]

\* css(style): the class string of the style object, and the system after the call
css(self, style) ==
  IF MapHas(self.cache, CacheKey(style))
  THEN [sys |-> [self EXCEPT !.hits = @ + 1], className |-> MapGet(self.cache, CacheKey(style))]
  ELSE CssMiss(CacheKey(style), CssFrom([sys |-> self, classNames |-> <<>>], style))

\* '@layer a, b, c;'
generateLayerDefinition(order) == S_at_layer \o Join(order, S_comma_sp) \o <<59>>

\* the rules filed under a layer, in insertion order
RulesIn(layerRules, layer) ==
  LET In(i) == layerRules[i][1] = layer
      at == SelectSeq([i \in 1..Len(layerRules) |-> i], In)
  IN [n \in 1..Len(at) |-> layerRules[at[n]][2]]

\* '@layer name {' rules '}'
LayerBlock(layer, rules) ==
  S_at_layer \o layer \o S_block_open \o NewLine \o Join(rules, NewLine) \o NewLine \o RBrace

\* the blocks of the layers that hold rules, in the order given
RECURSIVE LayerBlocks(_, _)
LayerBlocks(layerRules, order) ==
  IF order = <<>> THEN <<>>
  ELSE (IF RulesIn(layerRules, Head(order)) = <<>> THEN <<>>
        ELSE <<LayerBlock(Head(order), RulesIn(layerRules, Head(order)))>>)
       \o LayerBlocks(layerRules, Tail(order))

\* an output whose blocks follow the order in which the layers first received a rule
LayerOrderOf_firstSeen(self) ==
  IF self.layerRules = <<>> THEN self.layers.order
  ELSE <<self.layerRules[1][1]>> \o SelectSeq(self.layers.order, LAMBDA l : l # self.layerRules[1][1])

\* the order of the layers in the output: the configured one
LayerOrderOf(self) == self.layers.order

\* getCSSRules({ useLayers })
getCSSRules(self, useLayers) ==
  IF useLayers /\ self.layers.enabled
  THEN Join(<<generateLayerDefinition(LayerOrderOf(self))>> \o LayerBlocks(self.layerRules, LayerOrderOf(self)),
            NewLine)
  ELSE Join(MapValues(self.cssRules), NewLine)

\* resetCSSRules(): the rules, the registry and the cache are emptied together
resetCSSRules(self) ==
  [self EXCEPT !.registry = reset(@), !.cssRules = <<>>, !.layerRules = <<>>,
               !.cache = <<>>, !.hits = 0, !.misses = 0]

\* the declarations of a style object that are not yet in the list, added in order
RECURSIVE AddDeclared(_, _)
AddDeclared(declared, entries) ==
  IF entries = <<>> THEN declared
  ELSE IF Head(entries)[2].type # "string" \/ <<Head(entries)[1], Head(entries)[2].v>> \in Range(declared)
  THEN AddDeclared(declared, Tail(entries))
  ELSE AddDeclared(Append(declared, <<Head(entries)[1], Head(entries)[2].v>>), Tail(entries))

\* system.self: the style system; system.first[i]: what the first css(SystemStyles[i]) returned;
\* system.times[i]: the css(SystemStyles[i]) calls made; system.declared: the distinct
\* declarations passed to css() since the rules were last reset, in the order of their first call
InitSystem ==
  /\ RegistryInit
  /\ NamesIdle
  /\ ExtractorIdle
  /\ PureIdle
  /\ scan = <<>>
  /\ vite = <<>>
  /\ page = <<>>
  /\ \E layers \in LayerConfigs :
       system = [self     |-> createStyleSystem(layers),
                 first    |-> [i \in SystemStyleIds |-> <<>>],
                 times    |-> [i \in SystemStyleIds |-> 0],
                 declared |-> <<>>]
  /\ last = [op |-> "none"]
  /\ nops = 0

CssReturns(i, result) ==
  /\ system' = [self     |-> result.sys,
                first    |-> IF system.first[i] = <<>>
                             THEN [system.first EXCEPT ![i] = <<result.className>>]
                             ELSE system.first,
                times    |-> [system.times EXCEPT ![i] = @ + 1],
                declared |-> AddDeclared(system.declared, SystemStyles[i])]
  /\ last' = [op |-> "css", style |-> i, className |-> result.className]

Css(i) ==
  /\ nops < MaxSystemOps
  /\ CssReturns(i, css(system.self, SystemStyles[i]))
  /\ nops' = nops + 1
  /\ UNCHANGED <<regVars, nameVars, critVars, pureVars, scan, vite, page>>

GetCSSRules(useLayers) ==
  /\ last' = [op |-> "getCSSRules", useLayers |-> useLayers,
              text |-> getCSSRules(system.self, useLayers)]
  /\ UNCHANGED <<regVars, nameVars, critVars, pureVars, hostVars, nops>>

ResetCSSRules ==
  /\ nops < MaxSystemOps
  /\ system' = [system EXCEPT !.self = resetCSSRules(@), !.declared = <<>>]
  /\ last' = [op |-> "resetCSSRules"]
  /\ nops' = nops + 1
  /\ UNCHANGED <<regVars, nameVars, critVars, pureVars, scan, vite, page>>

NextSystem ==
  \/ \E i \in SystemStyleIds : Css(i)
  \/ \E useLayers \in BOOLEAN : GetCSSRules(useLayers)
  \/ ResetCSSRules

SpecSystem == InitSystem /\ [][NextSystem]_vars

\* how often pat occurs in text
RECURSIVE CountOf(_, _)
CountOf(text, pat) ==
  IF IndexOf(text, pat, 0) < 0 THEN 0
  ELSE 1 + CountOf(SliceFrom(text, IndexOf(text, pat, 0) + Len(pat)), pat)

\* 'property: value;' as it stands in the rule of the declaration
DeclarationText(d) == KebabCase(d[1]) \o <<58, 32>> \o d[2] \o <<59>>

\* the text holds one rule for each declaration made, and no other rule
OneRuleEach(text, declared) ==
  /\ \A n \in 1..Len(declared) : CountOf(text, DeclarationText(declared[n])) = 1
  /\ CountOf(text, <<59, 32, 125>>) = Len(declared)

(***************************************************************************)
(* C21: css() called again with an equal style object returns the class    *)
(* string the first call returned, and getCSSRules(), with and without     *)
(* cascade layers, holds exactly one rule for each distinct declaration    *)
(* passed to css() since the rules were last reset, however often the      *)
(* calls were repeated.                                                    *)
(***************************************************************************)
C21_CssIdempotent ==
  /\ last.op = "css" => system.first[last.style] = <<last.className>>
  /\ \A useLayers \in BOOLEAN :
       OneRuleEach(getCSSRules(system.self, useLayers), system.declared)

C21_Witness ==
  /\ last.op = "css"
  /\ system.times[last.style] >= 3
  /\ system.self.layers.enabled
  /\ system.self.misses >= 2
  /\ Len(system.declared) = 2

\* the opening of the block of a layer: '@layer name {'
BlockOpen(layer) == S_at_layer \o layer \o S_block_open

S_css           == <<99, 115, 115>>
S_styles        == <<115, 116, 121, 108, 101, 115>>
S_sylphx_silk   == <<64, 115, 121, 108, 112, 104, 120, 47, 115, 105, 108, 107>>
S_other_library == <<111, 116, 104, 101, 114, 45, 108, 105, 98, 114, 97, 114, 121>>

\* a member of an object literal. kind: property, spread or method; keyStatic: the key is an
\* identifier, a string literal or a computed key that evaluates to a string; confident: the
\* value (the argument of a spread) evaluates; value: what it evaluates to
Member(kind, key, keyStatic, confident, value) ==
  [kind |-> kind, key |-> key, keyStatic |-> keyStatic, confident |-> confident, value |-> value]

MemberPool ==
  << Member("property", S_color, TRUE, TRUE, StringValue(S_red)),             \* color: 'red'
     Member("property", S_p, TRUE, TRUE, NumberValue(4)),                     \* p: 4
     Member("property", S_bg, TRUE, FALSE, UndefinedValue),                   \* bg: props.color
     Member("property", S_w, FALSE, TRUE, NumberValue(100)),                  \* [props.side]: 100
     Member("spread", <<>>, FALSE, TRUE,
            ObjectValue(<< <<S_display, StringValue(S_flex)>> >>)),           \* ...{ display: 'flex' }
     Member("spread", <<>>, FALSE, FALSE, UndefinedValue),                    \* ...props.sx
     Member("method", S_margin, TRUE, FALSE, UndefinedValue),                 \* margin() { ... }
     Member("property", S_m, TRUE, TRUE, NullValue),                          \* m: null
     Member("property", S__hover, TRUE, TRUE,
            ObjectValue(<< <<S_color, StringValue(S_red)>> >>)) >>            \* _hover: { color: 'red' }

MemberIds == 1..Len(MemberPool)

\* the bindings css() calls are made through, and the number and shape of their arguments
Callees ==
  { [name |-> S_css,    imported |-> S_css, source |-> S_sylphx_silk],     \* import { css } from '@sylphx/silk'
    [name |-> S_css,    imported |-> S_css, source |-> S_other_library],   \* import { css } from 'other-library'
    [name |-> S_styles, imported |-> S_css, source |-> S_sylphx_silk] }    \* import { css as styles } from '@sylphx/silk'

\* state.opts.importSources || ['@sylphx/silk']
DefaultImportSources == <<S_sylphx_silk>>

\* the members of a literal, in source order
MembersOf(picked) == SelectSeq([i \in MemberIds |-> i], LAMBDA i : i \in picked)

\* callee.isIdentifier() && name === 'css' && referencesImport(source, 'css') for a configured source
isSilkCssCall(callee, importSources) ==
  /\ callee.name = S_css
  /\ \E n \in 1..Len(importSources) :
       callee.source = importSources[n] /\ callee.imported = S_css

\* the loop of extractStaticStyles over the members; ok = FALSE stands for the null it returns
RECURSIVE ExtractFrom(_, _)
ExtractFrom(members, acc) ==
  IF members = <<>> \/ ~acc.ok THEN acc
  ELSE ExtractFrom(Tail(members),
         IF MemberPool[Head(members)].kind = "spread"
         THEN (IF MemberPool[Head(members)].confident
                    /\ MemberPool[Head(members)].value.type \in {"object", "null"}
               THEN [acc EXCEPT !.styles = MapFrom(@, MemberPool[Head(members)].value.v)]
               ELSE [acc EXCEPT !.ok = FALSE])
         ELSE IF MemberPool[Head(members)].kind # "property" THEN acc
         ELSE IF ~MemberPool[Head(members)].keyStatic \/ MemberPool[Head(members)].key = <<>>
         THEN [acc EXCEPT !.dynamicProps = Append(@, Head(members))]
         ELSE IF MemberPool[Head(members)].confident
         THEN [acc EXCEPT !.styles = MapSet(@, MemberPool[Head(members)].key,
                                            MemberPool[Head(members)].value)]
         ELSE [acc EXCEPT !.dynamicProps = Append(@, Head(members))])

extractStaticStyles(isObject, members) ==
  IF ~isObject THEN [ok |-> FALSE, styles |-> <<>>, dynamicProps |-> <<>>]
  ELSE ExtractFrom(members, [ok |-> TRUE, styles |-> <<>>, dynamicProps |-> <<>>])

\* the call as written: css(<object literal or other expression>, ...further arguments)
CallCode(members, nargs) ==
  [kind |-> "call", members |-> members, nargs |-> nargs, pushed |-> <<>>, value |-> <<>>]

\* a string literal in the place of the call
StringLiteral(value) ==
  [kind |-> "string", members |-> <<>>, nargs |-> 0, pushed |-> <<>>, value |-> value]

\* for (const [cls, rule] of cssRules) { state.cssRules.set(cls, rule); state.classNames.add(cls) }
StoreRules(state, cssRules) ==
  [cssRules   |-> MapFrom(state.cssRules, cssRules),
   classNames |-> state.classNames \cup {cssRules[i][1] : i \in 1..Len(cssRules)}]

\* handleFullCompilation: the rules are stored, the call becomes a string literal
FullCompilation(code, state, generated) ==
  [code  |-> StringLiteral(generated.className),
   state |-> StoreRules(state, generated.cssRules)]

\* handlePartialCompilation: the rules are stored, the first argument keeps the dynamic members,
\* the class string is pushed as a further argument unless it is empty
PartialCompilation(code, state, dynamicProps, generated) ==
  [code  |-> [code EXCEPT !.members = dynamicProps,
                          !.pushed = IF generated.className # <<>> THEN <<generated.className>> ELSE <<>>],
   state |-> StoreRules(state, generated.cssRules)]

\* the part of handleCallExpression that follows a successful extraction
Compile(code, state, extracted, opts) ==
  IF Len(extracted.styles) = 0 /\ Len(extracted.dynamicProps) = 0
  THEN [code |-> StringLiteral(<<>>), state |-> state]
  ELSE IF Len(extracted.styles) > 0 /\ Len(extracted.dynamicProps) = 0
  THEN FullCompilation(code, state, babelGenerateAtomicCSS(extracted.styles, opts))
  ELSE IF Len(extracted.styles) > 0
  THEN PartialCompilation(code, state, extracted.dynamicProps,
                          babelGenerateAtomicCSS(extracted.styles, opts))
  ELSE [code |-> code, state |-> state]

\* the remainder of handleCallExpression once the call is known to be a css() call with 1 or 2 arguments
CompileExtracted(code, state, extracted, opts) ==
  IF ~extracted.ok THEN [code |-> code, state |-> state]
  ELSE Compile(code, state, extracted, opts)

\* handleCallExpression: the code in the place of the call, and the plugin state after it
handleCallExpression(call, state, opts) ==
  IF ~isSilkCssCall(call.callee, DefaultImportSources) \/ call.nargs = 0 \/ call.nargs > 2
  THEN [code |-> CallCode(MembersOf(call.picked), call.nargs), state |-> state]
  ELSE CompileExtracted(CallCode(MembersOf(call.picked), call.nargs), state,
                        extractStaticStyles(call.isObject, MembersOf(call.picked)), opts)

\* programVisitor.enter: the collections of the file start empty
programEnter == [cssRules |-> <<>>, classNames |-> {}]

\* programVisitor.exit: the metadata attached to the file
programExit(state) == [cssRules |-> state.cssRules, classNames |-> state.classNames]

MaxArgs == 3    \* arguments of one css() call

\* the css() calls of a file: a callee, a number of arguments, and a first argument that is
\* an object literal made of members of the pool or some other expression
Calls ==
  {[callee |-> callee, nargs |-> nargs, isObject |-> isObject, picked |-> picked] :
     callee \in Callees, nargs \in 0..MaxArgs, isObject \in BOOLEAN, picked \in SUBSET MemberIds}

\* a call without arguments has no first argument; the members of another expression are not looked at;
\* calls through another binding are tried with small literals only
WellFormedCall(call) ==
  /\ call.nargs = 0 => ~call.isObject
  /\ ~call.isObject => call.picked = {}
  /\ (~isSilkCssCall(call.callee, DefaultImportSources) \/ call.nargs \notin {1, 2})
       => Cardinality(call.picked) <= 1

InitTransform ==
  /\ RegistryInit
  /\ HostIdle
  /\ NamesIdle
  /\ ExtractorIdle
  /\ \E call \in Calls, opts \in PluginOptionSets :
       /\ WellFormedCall(call)
       /\ input = [fn |-> "transform", call |-> call, opts |-> opts]
  /\ output = <<>>
  /\ last = [op |-> "none"]
  /\ nops = 0

ProgramEnter ==
  /\ output = <<>>
  /\ output' = [phase |-> "entered",
                code |-> CallCode(MembersOf(input.call.picked), input.call.nargs),
                state |-> programEnter, metadata |-> programExit(programEnter)]
  /\ last' = [op |-> "enter"]
  /\ UNCHANGED <<regVars, nameVars, critVars, input, nops, hostVars>>

VisitedAs(result) ==
  output' = [output EXCEPT !.phase = "visited", !.code = result.code, !.state = result.state]

CallExpression ==
  /\ output # <<>>
  /\ output.phase = "entered"
  /\ VisitedAs(handleCallExpression(input.call, output.state, input.opts))
  /\ last' = [op |-> "CallExpression"]
  /\ UNCHANGED <<regVars, nameVars, critVars, input, nops, hostVars>>

ProgramExit ==
  /\ output # <<>>
  /\ output.phase = "visited"
  /\ output' = [output EXCEPT !.phase = "exited", !.metadata = programExit(output.state)]
  /\ last' = [op |-> "exit"]
  /\ UNCHANGED <<regVars, nameVars, critVars, input, nops, hostVars>>

NextTransform ==
  \/ ProgramEnter
  \/ CallExpression
  \/ ProgramExit

SpecTransform == InitTransform /\ [][NextTransform]_vars

\* the member is written with a key and a value that are known when the file is compiled
IsStaticMember(i) ==
  \/ MemberPool[i].kind = "property" /\ MemberPool[i].keyStatic /\ MemberPool[i].confident
  \/ MemberPool[i].kind = "spread" /\ MemberPool[i].confident

IsDynamicSpread(i) == MemberPool[i].kind = "spread" /\ ~MemberPool[i].confident

\* the entries the static members of a literal stand for, in source order
StaticEntries(picked) ==
  Flatten([n \in 1..Len(MembersOf(picked)) |->
             LET i == MembersOf(picked)[n]
             IN IF ~IsStaticMember(i) THEN <<>>
                ELSE IF MemberPool[i].kind = "spread" THEN MemberPool[i].value.v
                ELSE << <<MemberPool[i].key, MemberPool[i].value>> >>])

\* the members that are not static, in source order
DynamicMembers(picked) == SelectSeq(MembersOf(picked), LAMBDA i : ~IsStaticMember(i))

\* the call has been visited, and was made through css of '@sylphx/silk' with one or two arguments
VisitedCssCall ==
  /\ output # <<>>
  /\ output.phase \in {"visited", "exited"}
  /\ input.call.nargs \in {1, 2}
  /\ input.call.callee = [name |-> S_css, imported |-> S_css, source |-> S_sylphx_silk]

\* the call has been visited, and was made through another binding
VisitedOtherCall ==
  /\ output # <<>>
  /\ output.phase \in {"visited", "exited"}
  /\ input.call.callee # [name |-> S_css, imported |-> S_css, source |-> S_sylphx_silk]

Unchanged ==
  /\ output.code = CallCode(MembersOf(input.call.picked), input.call.nargs)
  /\ output.state.cssRules = <<>>

\* what the claim says of a css() call with an object literal, given the class string and the
\* rules of its static entries
OutcomeOf(picked, generated) ==
  IF (\E i \in picked : IsDynamicSpread(i)) \/ (picked # {} /\ \A i \in picked : ~IsStaticMember(i))
  THEN Unchanged
  ELSE IF \A i \in picked : IsStaticMember(i)
  THEN /\ output.code = StringLiteral(generated.className)
       /\ output.state.cssRules = generated.cssRules
  ELSE /\ output.code.kind = "call"
       /\ output.code.members = DynamicMembers(picked)
       /\ output.code.pushed = (IF generated.className = <<>> THEN <<>> ELSE <<generated.className>>)
       /\ output.state.cssRules = generated.cssRules

(***************************************************************************)
(* C23: a call of css imported as css from '@sylphx/silk', with one or two *)
(* arguments and an object literal first: when every member is static it   *)
(* becomes the string literal of the generated class names ('' for {}) and *)
(* the rules are recorded; when static and other members are mixed it      *)
(* keeps the other members, gets the class string as a further argument    *)
(* and the static rules are recorded; when no member is static, or a       *)
(* spread is dynamic, or the argument is no object literal, or css comes   *)
(* from elsewhere, the call is as it was and no rule is recorded.          *)
(***************************************************************************)
C23_TransformOutcomes ==
  /\ VisitedOtherCall => Unchanged
  /\ (VisitedCssCall /\ ~input.call.isObject) => Unchanged
  /\ (VisitedCssCall /\ input.call.isObject) =>
       OutcomeOf(input.call.picked,
                 babelGenerateAtomicCSS(StaticEntries(input.call.picked), input.opts))

\* the class names and rules the generator gives for member i taken alone
GeneratedAlone(i) == babelGenerateAtomicCSS(StaticEntries({i}), input.opts).cssRules

\* the <<class name, rule>> pairs that the static members of the literal stand for
ExpectedRules(picked) ==
  UNION {Range(GeneratedAlone(i)) : i \in {j \in picked : IsStaticMember(j)}}

\* the call was compiled, fully or partially
Compiled ==
  /\ VisitedCssCall
  /\ input.call.isObject
  /\ output.code # CallCode(MembersOf(input.call.picked), input.call.nargs)

(***************************************************************************)
(* C25: in what the generator returns for the static entries of one style  *)
(* object, every declaration has its rule under its class name, and no     *)
(* class name stands for two rule texts; a declaration and the same        *)
(* declaration under _hover have different class names and both rules are  *)
(* there.                                                                  *)
(***************************************************************************)
C25_OneRuleTextPerClass ==
  Compiled =>
    /\ \A pair \in ExpectedRules(input.call.picked) : pair \in Range(output.state.cssRules)
    /\ \A p, q \in ExpectedRules(input.call.picked) : p[1] = q[1] => p[2] = q[2]

\* member i is kept in the call that remains
Kept(i) == output.code.kind = "call" /\ i \in Range(output.code.members)

\* the class string that stands in the place of the static members
ClassString ==
  IF output.code.kind = "string" THEN output.code.value
  ELSE IF output.code.pushed = <<>> THEN <<>> ELSE output.code.pushed[1]

\* member i is compiled: it is static, and each of its declarations has its class name in the
\* class string and its rule in the metadata of the file
CompiledMember(i) ==
  /\ IsStaticMember(i)
  /\ \A pair \in Range(GeneratedAlone(i)) :
       /\ pair \in Range(output.metadata.cssRules)
       /\ pair[1] \in Range(Split(ClassString, <<32>>))

(***************************************************************************)
(* C26: once a css() call has been compiled, fully or partially, and the   *)
(* metadata of the file has been emitted, every member of the original     *)
(* object literal is either compiled (class name in the class string, rule *)
(* in the metadata) or kept in the remaining call, and never both.         *)
(***************************************************************************)
C26_MembersAccounted ==
  (Compiled /\ output.phase = "exited") =>
    \A i \in input.call.picked : Kept(i) # CompiledMember(i)

(***************************************************************************)
(* The source scan: evaluateValue, evaluateObjectExpression,               *)
(* extractCssFromFile and scanSourceFiles                                  *)
(***************************************************************************)
MaxMembers == 2      \* members of one object literal handed to css()
MaxFiles == 2        \* files of one scan
MaxScanCalls == 2    \* calls visited in one scan

S_fontSize   == <<102, 111, 110, 116, 83, 105, 122, 101>>
S_side       == <<115, 105, 100, 101>>
S_brandColor == <<98, 114, 97, 110, 100, 67, 111, 108, 111, 114>>
S_px         == <<112, 120>>

\* an AST node: its type, its text (value, name or cooked text), the expressions of a template
\* literal, and the members of an object expression (positions in ScanPool)
Node(type, v, expressions, members) ==
  [type |-> type, v |-> v, expressions |-> expressions, members |-> members]

\* a member of an object literal as the parser gives it, and what it stands for when it can be
\* resolved from the source text alone
ScanMember(kind, computed, key, value, resolved, entry) ==
  [kind |-> kind, computed |-> computed, key |-> key, value |-> value,
   resolved |-> resolved, entry |-> entry]

NoNode == Node("None", <<>>, 0, <<>>)
NoEntry == <<S_empty, UndefinedValue>>

ScanPool ==
  << \* color: 'red'
     ScanMember("ObjectProperty", FALSE, Node("Identifier", S_color, 0, <<>>),
                Node("StringLiteral", S_red, 0, <<>>), TRUE, <<S_color, StringValue(S_red)>>),
     \* 'fontSize': 16
     ScanMember("ObjectProperty", FALSE, Node("StringLiteral", S_fontSize, 0, <<>>),
                Node("NumericLiteral", <<16>>, 0, <<>>), TRUE, <<S_fontSize, NumberValue(16)>>),
     \* bg: brandColor
     ScanMember("ObjectProperty", FALSE, Node("Identifier", S_bg, 0, <<>>),
                Node("Identifier", S_brandColor, 0, <<>>), FALSE, NoEntry),
     \* [side]: 'blue'
     ScanMember("ObjectProperty", TRUE, Node("Identifier", S_side, 0, <<>>),
                Node("StringLiteral", S_blue, 0, <<>>), FALSE, NoEntry),
     \* ...base
     ScanMember("SpreadElement", FALSE, NoNode, Node("Identifier", S_base, 0, <<>>), FALSE, NoEntry),
     \* w: `${size}px`
     ScanMember("ObjectProperty", FALSE, Node("Identifier", S_w, 0, <<>>),
                Node("TemplateLiteral", S_px, 1, <<>>), FALSE, NoEntry),
     \* _hover: { color: 'red', bg: brandColor }
     ScanMember("ObjectProperty", FALSE, Node("Identifier", S__hover, 0, <<>>),
                Node("ObjectExpression", <<>>, 0, <<1, 3>>), TRUE,
                <<S__hover, ObjectValue(<< <<S_color, StringValue(S_red)>> >>)>>),
     \* ['margin']: `0 auto`
     ScanMember("ObjectProperty", TRUE, Node("StringLiteral", S_margin, 0, <<>>),
                Node("TemplateLiteral", S_0_auto, 0, <<>>), TRUE, <<S_margin, StringValue(S_0_auto)>>) >>

ScanMemberIds == 1..Len(ScanPool)

\* the key of a property: [found, text]; a computed key counts only when it is a string literal,
\* after which the type of the key node alone decides
PropertyKey(prop) ==
  IF prop.computed /\ prop.key.type = "StringLiteral" THEN <<TRUE, prop.key.v>>
  ELSE IF prop.key.type = "Identifier" THEN <<TRUE, prop.key.v>>
  ELSE IF prop.key.type = "StringLiteral" THEN <<TRUE, prop.key.v>>
  ELSE IF prop.key.type = "NumericLiteral" THEN <<TRUE, IntToString(prop.key.v[1])>>
  ELSE <<FALSE, <<>>>>

\* evaluateValue and evaluateObjectExpression; a value that cannot be evaluated is undefined
RECURSIVE evaluateValue(_), EvaluateFrom(_, _)
evaluateValue(node) ==
  CASE node.type = "StringLiteral"  -> StringValue(node.v)
    [] node.type = "NumericLiteral" -> NumberValue(node.v[1])
    [] node.type = "NullLiteral"    -> NullValue
    [] node.type = "ObjectExpression" -> ObjectValue(EvaluateFrom(node.members, <<>>))
    [] node.type = "TemplateLiteral" /\ node.expressions = 0 -> StringValue(node.v)
    [] OTHER -> UndefinedValue

\* if (value !== undefined) result[key] = value
SetDefined(result, key, value) ==
  IF value.type = "undefined" THEN result ELSE MapSet(result, key, value)

EvaluateFrom(members, result) ==
  IF members = <<>> THEN result
  ELSE EvaluateFrom(Tail(members),
         IF ScanPool[Head(members)].kind # "ObjectProperty"
              \/ ~PropertyKey(ScanPool[Head(members)])[1]
         THEN result
         ELSE SetDefined(result, PropertyKey(ScanPool[Head(members)])[2],
                         evaluateValue(ScanPool[Head(members)].value)))

evaluateObjectExpression(members) == EvaluateFrom(members, <<>>)

\* the members of a literal, in source order
ScanMembersOf(picked) == SelectSeq([i \in ScanMemberIds |-> i], LAMBDA i : i \in picked)

\* the calls a file may hold: a css(...) call or another call, with an object literal or another
\* expression as first argument
ScanCalls ==
  {[isCss |-> isCss, isObject |-> isObject, picked |-> picked] :
     isCss \in BOOLEAN, isObject \in BOOLEAN,
     picked \in {p \in SUBSET ScanMemberIds : Cardinality(p) <= MaxMembers}}

\* the CallExpression visitor of extractCssFromFile: the rules of the file after the call
VisitCallExpression(cssRules, call) ==
  IF call.isCss /\ call.isObject
  THEN Append(cssRules, [from |-> call.picked,
                         styles |-> evaluateObjectExpression(ScanMembersOf(call.picked))])
  ELSE cssRules

\* files.map(extractCssFromFile).filter(result => result.cssRules.length > 0)
scanSourceFiles(files) == SelectSeq(files, LAMBDA f : Len(f.cssRules) > 0)

\* scan.files: the results of the files read so far, with the css() calls on object literals
\* each of them held; scan.open: the file being traversed; scan.results: what the scan returned
InitScan ==
  /\ RegistryInit
  /\ NamesIdle
  /\ ExtractorIdle
  /\ PureIdle
  /\ system = <<>>
  /\ vite = <<>>
  /\ page = <<>>
  /\ scan = [files |-> <<>>, open |-> FALSE, cssRules |-> <<>>, held |-> 0,
             returned |-> FALSE, results |-> <<>>]
  /\ last = [op |-> "none"]
  /\ nops = 0

\* extractCssFromFile up to the traversal: a file that parses is traversed, a file that does not
\* ends in the catch block with the rules it has, which are none
ReadFile(parses) ==
  /\ ~scan.open
  /\ ~scan.returned
  /\ Len(scan.files) < MaxFiles
  /\ scan' = IF parses THEN [scan EXCEPT !.open = TRUE, !.cssRules = <<>>, !.held = 0]
             ELSE [scan EXCEPT !.files = Append(@, [parsed |-> FALSE, cssRules |-> <<>>, held |-> 0])]
  /\ last' = [op |-> "readFile", parses |-> parses]
  /\ UNCHANGED <<regVars, nameVars, critVars, pureVars, system, vite, page, nops>>

VisitCall(call) ==
  /\ scan.open
  /\ nops < MaxScanCalls
  /\ call.isObject \/ call.picked = {}
  /\ scan' = [scan EXCEPT !.cssRules = VisitCallExpression(@, call),
                          !.held = IF call.isCss /\ call.isObject THEN @ + 1 ELSE @]
  /\ last' = [op |-> "visit", call |-> call]
  /\ nops' = nops + 1
  /\ UNCHANGED <<regVars, nameVars, critVars, pureVars, system, vite, page>>

\* extractCssFromFile returns { filePath, cssRules }
ReturnFile ==
  /\ scan.open
  /\ scan' = [scan EXCEPT !.open = FALSE, !.cssRules = <<>>, !.held = 0,
                          !.files = Append(@, [parsed |-> TRUE, cssRules |-> scan.cssRules,
                                               held |-> scan.held])]
  /\ last' = [op |-> "returnFile"]
  /\ UNCHANGED <<regVars, nameVars, critVars, pureVars, system, vite, page, nops>>

ScanReturns ==
  /\ ~scan.open
  /\ ~scan.returned
  /\ scan' = [scan EXCEPT !.returned = TRUE, !.results = scanSourceFiles(scan.files)]
  /\ last' = [op |-> "scanSourceFiles"]
  /\ UNCHANGED <<regVars, nameVars, critVars, pureVars, system, vite, page, nops>>

NextScan ==
  \/ \E parses \in BOOLEAN : ReadFile(parses)
  \/ \E call \in ScanCalls : VisitCall(call)
  \/ ReturnFile
  \/ ScanReturns

SpecScan == InitScan /\ [][NextScan]_vars

\* the rule holds the entries of the members of its literal that can be resolved, and nothing else
ResolvedOnly(rule) ==
  /\ \A i \in rule.from :
       ScanPool[i].resolved =>
         /\ MapHas(rule.styles, ScanPool[i].entry[1])
         /\ MapGet(rule.styles, ScanPool[i].entry[1]) = ScanPool[i].entry[2]
  /\ \A n \in 1..Len(rule.styles) :
       \E i \in rule.from : ScanPool[i].resolved /\ ScanPool[i].entry[1] = rule.styles[n][1]

(***************************************************************************)
(* C24: what cannot be resolved is dropped alone. Every rule of a scanned  *)
(* file holds the declarations of its object literal that can be resolved  *)
(* and none of those that cannot; a file that parses gives one rule for    *)
(* each css() call on an object literal it holds, whatever the other calls *)
(* are; a file that does not parse gives no rule and the files after it    *)
(* are still read; the scan returns the files that have rules, in order.   *)
(***************************************************************************)
C24_FailureIsLocal ==
  /\ \A f \in 1..Len(scan.files) :
       /\ Len(scan.files[f].cssRules) = scan.files[f].held
       /\ ~scan.files[f].parsed => scan.files[f].cssRules = <<>>
       /\ \A r \in 1..Len(scan.files[f].cssRules) : ResolvedOnly(scan.files[f].cssRules[r])
  /\ scan.returned =>
       scan.results = SelectSeq(scan.files, LAMBDA f : f.held > 0)


(***************************************************************************)
(* The Vite plugin: collectCSS, generateCSS, the build hooks, the dev      *)
(* server and the client of silk:update                                    *)
(***************************************************************************)
MaxViteOps == 5      \* hook calls, runtime css() calls and client events of one run

S_a0 == <<97, 48>>
S_a1 == <<97, 49>>
S_a2 == <<97, 50>>

\* the rules the runtime puts into its exported rule map, by class name
ViteRulePool ==
  << <<S_a0, BaseRule(S_a0, S_color, S_red)>>,
     <<S_a1, BaseRule(S_a1, S_display, S_flex)>>,
     <<S_a2, BaseRule(S_a2, S_margin, S_0_auto)>> >>

ViteRuleIds == 1..Len(ViteRulePool)

\* the characters of ([{}:;,])
IsPunct(c) == c \in {123, 125, 58, 59, 44}

\* the characters of s at the positions that satisfy Keep
KeepAt(s, Keep(_)) ==
  LET at == SelectSeq([i \in 1..Len(s) |-> i], Keep)
  IN [n \in 1..Len(at) |-> s[at[n]]]

\* .replace(/\s+/g, ' ')
CollapseSpace(s) ==
  LET Keep(i) == ~IsSpace(s[i]) \/ i = 1 \/ ~IsSpace(s[i - 1])
      kept == KeepAt(s, Keep)
  IN [n \in 1..Len(kept) |-> IF IsSpace(kept[n]) THEN 32 ELSE kept[n]]

\* .replace(/\s*([{}:;,])\s*/g, '$1') on a text whose white space is single spaces
StripAroundPunct(s) ==
  LET Keep(i) == ~(s[i] = 32 /\ ( (i > 1 /\ IsPunct(s[i - 1])) \/ (i < Len(s) /\ IsPunct(s[i + 1])) ))
  IN KeepAt(s, Keep)

\* .replace(/;}/g, '}')
DropLastSemicolon(s) ==
  LET Keep(i) == ~(s[i] = 59 /\ i < Len(s) /\ s[i + 1] = 125)
  IN KeepAt(s, Keep)

minifyCSS(text) == Trim(DropLastSemicolon(StripAroundPunct(CollapseSpace(text))))

\* collectCSS(): the rules of the rule map whose class name is not in cssCache yet, joined, and
\* the cache with their class names added
NotCached(cssRules, cssCache) == SelectSeq(cssRules, LAMBDA e : e[1] \notin cssCache)

collectCSS(self) ==
  [css |-> Join(MapValues(NotCached(self.cssRules, self.cssCache)), NewLine),
   cssCache |-> self.cssCache \cup {e[1] : e \in Range(self.cssRules)}]

\* minify ?? isBuild
Minifies(self) == IF self.opts.minify = <<>> THEN self.isBuild ELSE self.opts.minify[1]

\* generateCSS()
generateCSS(self) ==
  [css |-> IF Minifies(self) THEN minifyCSS(collectCSS(self).css) ELSE collectCSS(self).css,
   cssCache |-> collectCSS(self).cssCache]

VitePluginOptions ==
  [minify : {<<>>, <<TRUE>>, <<FALSE>>}, inject : BOOLEAN, watch : BOOLEAN]

\* the index.html of the project, as far as the hooks look at it: whether it has a </head>, the
\* <style data-silk> elements in it and the number of stylesheet links to the output file
NoHtml == [head |-> FALSE, inline |-> <<>>, links |-> 0]

\* silk(options): the plugin with its closure variables, the runtime rule map, the bundle
\* (the transformed html and the emitted asset), the socket, the client document and the rules
\* the updates it has processed held
InitVite ==
  /\ RegistryInit
  /\ NamesIdle
  /\ ExtractorIdle
  /\ PureIdle
  /\ system = <<>>
  /\ scan = <<>>
  /\ page = <<>>
  /\ \E opts \in VitePluginOptions, head \in BOOLEAN :
       vite = [opts |-> opts, resolved |-> FALSE, isBuild |-> FALSE, watcher |-> FALSE,
               cssRules |-> <<>>, cssCache |-> {},
               html |-> [NoHtml EXCEPT !.head = head],
               asset |-> [emitted |-> FALSE, source |-> <<>>],
               ws |-> <<>>,
               style |-> [exists |-> FALSE, textContent |-> <<>>],
               delivered |-> {}]
  /\ last = [op |-> "none"]
  /\ nops = 0

ViteUnchanged == UNCHANGED <<regVars, nameVars, critVars, pureVars, system, scan, page>>

\* configResolved(config)
ConfigResolved(command) ==
  /\ ~vite.resolved
  /\ vite' = [vite EXCEPT !.resolved = TRUE, !.isBuild = (command = "build")]
  /\ last' = [op |-> "configResolved", command |-> command]
  /\ UNCHANGED nops
  /\ ViteUnchanged

\* configureServer(_server): the 100 ms poll is started when watch is set
ConfigureServer ==
  /\ vite.resolved
  /\ ~vite.isBuild
  /\ ~vite.watcher
  /\ vite.opts.watch
  /\ vite' = [vite EXCEPT !.watcher = TRUE]
  /\ last' = [op |-> "configureServer"]
  /\ UNCHANGED nops
  /\ ViteUnchanged

\* the runtime adds a rule to the rule map it exports
RuntimeRule(i) ==
  /\ vite.resolved
  /\ nops < MaxViteOps
  /\ ~MapHas(vite.cssRules, ViteRulePool[i][1])
  /\ vite' = [vite EXCEPT !.cssRules = MapSet(@, ViteRulePool[i][1], ViteRulePool[i][2])]
  /\ last' = [op |-> "css", rule |-> i]
  /\ nops' = nops + 1
  /\ ViteUnchanged

\* the callback of setInterval: new rules are sent, nothing is sent when there are none
WatcherTick ==
  /\ vite.watcher
  /\ nops < MaxViteOps
  /\ vite' = [vite EXCEPT !.cssCache = collectCSS(vite).cssCache,
                          !.ws = IF collectCSS(vite).css # <<>> THEN Append(@, collectCSS(vite).css) ELSE @]
  /\ last' = [op |-> "poll", css |-> collectCSS(vite).css]
  /\ nops' = nops + 1
  /\ ViteUnchanged

\* handleHotUpdate({ file, server })
HandleHotUpdate(isTs) ==
  /\ vite.resolved
  /\ ~vite.isBuild
  /\ nops < MaxViteOps
  /\ vite' = IF isTs
             THEN [vite EXCEPT !.cssCache = generateCSS(vite).cssCache,
                               !.ws = Append(@, generateCSS(vite).css)]
             ELSE vite
  /\ last' = [op |-> "handleHotUpdate", isTs |-> isTs]
  /\ nops' = nops + 1
  /\ ViteUnchanged

\* the html a transformIndexHtml call returns: the page with the style element in it, or the
\* page as it was when there is no css
Injected(html, text) ==
  IF text = <<>> THEN [html EXCEPT !.inline = <<>>] ELSE [html EXCEPT !.inline = <<text>>]

Transformed(self, out) ==
  [self EXCEPT !.cssCache = out.cssCache, !.html = Injected(@, out.css)]

\* the dev server hands the page to the browser, which starts with the document of that page
Served(self) ==
  IF self.isBuild THEN self
  ELSE [self EXCEPT !.style = [exists |-> self.html.inline # <<>>,
                               textContent |-> Flatten(self.html.inline)],
                    !.delivered = {}]

\* transformIndexHtml.handler(html)
TransformIndexHtml ==
  /\ vite.resolved
  /\ nops < MaxViteOps
  /\ vite' = Served(Transformed(vite, IF vite.opts.inject THEN generateCSS(vite)
                                      ELSE [css |-> <<>>, cssCache |-> vite.cssCache]))
  /\ last' = [op |-> "transformIndexHtml"]
  /\ nops' = nops + 1
  /\ ViteUnchanged

\* the html asset after generateBundle: the first inline style is replaced by the link, and a
\* link is put before </head>
Linked(html) ==
  [html EXCEPT !.inline = IF @ = <<>> THEN @ ELSE Tail(@),
               !.links = @ + (IF html.inline = <<>> THEN 0 ELSE 1) + (IF html.head THEN 1 ELSE 0)]

\* generateBundle(_, bundle)
GenerateBundle ==
  /\ vite.resolved
  /\ nops < MaxViteOps
  /\ vite' = IF ~vite.isBuild THEN vite
             ELSE IF generateCSS(vite).css = <<>>
                  THEN [vite EXCEPT !.cssCache = generateCSS(vite).cssCache]
                  ELSE [vite EXCEPT !.cssCache = generateCSS(vite).cssCache,
                                    !.asset = [emitted |-> TRUE, source |-> generateCSS(vite).css],
                                    !.html = Linked(@)]
  /\ last' = [op |-> "generateBundle", emitted |-> vite.isBuild /\ generateCSS(vite).css # <<>>,
              source |-> generateCSS(vite).css, cached |-> vite.cssCache]
  /\ nops' = nops + 1
  /\ ViteUnchanged

\* the text holds the rule, as the runtime wrote it or minified
HoldsRule(text, rule) == Includes(text, rule) \/ Includes(text, minifyCSS(rule))

\* import.meta.hot.on('silk:update', ({ css }) => ...): the client takes the next event
ClientUpdate ==
  /\ vite.ws # <<>>
  /\ vite' = [vite EXCEPT !.ws = Tail(@),
                          !.style = [exists |-> TRUE, textContent |-> Head(vite.ws)],
                          !.delivered = @ \cup {i \in ViteRuleIds : HoldsRule(Head(vite.ws), ViteRulePool[i][2])}]
  /\ last' = [op |-> "silk:update", css |-> Head(vite.ws)]
  /\ UNCHANGED nops
  /\ ViteUnchanged

NextVite ==
  \/ \E command \in {"build", "serve"} : ConfigResolved(command)
  \/ ConfigureServer
  \/ \E i \in ViteRuleIds : RuntimeRule(i)
  \/ WatcherTick
  \/ \E isTs \in BOOLEAN : HandleHotUpdate(isTs)
  \/ TransformIndexHtml
  \/ GenerateBundle
  \/ ClientUpdate

SpecVite == InitVite /\ [][NextVite]_vars

\* the text of a rule in the output of the plugin
AsGenerated(rule) == IF Minifies(vite) THEN minifyCSS(rule) ELSE rule

(***************************************************************************)
(* C27: in a build, generateBundle emits the CSS asset with every rule     *)
(* that is in the runtime rule map when it runs, whatever hooks ran before *)
(* it (transformIndexHtml in particular).                                  *)
(***************************************************************************)
C27_BundleHoldsEveryRule ==
  (last.op = "generateBundle" /\ vite.isBuild /\ vite.cssRules # <<>>) =>
    /\ last.emitted
    /\ \A n \in 1..Len(vite.cssRules) : Includes(last.source, AsGenerated(vite.cssRules[n][2]))

\* the rules the plugin has collected
Collected == {n \in 1..Len(vite.cssRules) : vite.cssRules[n][1] \in vite.cssCache}

(***************************************************************************)
(* C28: in dev mode, once the client has processed the silk:update events  *)
(* sent to it, its data-silk style element holds every rule the plugin has *)
(* collected, and at any time it holds every rule an update it processed   *)
(* delivered.                                                              *)
(***************************************************************************)
C28_PageHoldsCollectedRules ==
  (vite.resolved /\ ~vite.isBuild) =>
    /\ \A i \in vite.delivered :
         vite.style.exists /\ HoldsRule(vite.style.textContent, ViteRulePool[i][2])
    /\ (vite.ws = <<>> /\ vite.delivered # {}) =>
         \A n \in Collected : HoldsRule(vite.style.textContent, vite.cssRules[n][2])


(***************************************************************************)
(* The mark sets of one extractor                                          *)
(***************************************************************************)
\* the stylesheets handed to autoDetect when the marks alone are looked at: none, one rule, a
\* selector list, the same selector twice, and rules that mark in both directions
MarkSheets == {<<>>, <<1>>, <<2>>, <<3>>, <<1, 2>>, <<5, 1>>, <<2, 2>>}

NextMarks ==
  \/ GetStats
  \/ \E selector \in MarkSelectors : MarkCritical(selector)
  \/ \E selector \in MarkSelectors : MarkNonCritical(selector)
  \/ \E sheet \in MarkSheets : AutoDetect(sheet)
  \/ ExtractorReset

SpecMarks == InitCritical /\ [][NextMarks]_vars

\* the selectors the last call marked, and the set each of them was marked for
LastMarked ==
  CASE last.op \in {"markCritical", "markNonCritical"} -> {last.selector}
    [] last.op = "autoDetect" -> Range(DetectedSelectors(SheetText(last.sheet)))
    [] OTHER -> {}

LastMarkedCritical(selector) ==
  IF last.op = "autoDetect" THEN MatchesCriticalPattern(selector) ELSE last.op = "markCritical"

\* the selectors marked since the extractor was made or reset
MarkedSinceReset == DOMAIN manual \cup DOMAIN auto

\* the sets are disjoint, the selectors of the last call are in the set that call named, and the
\* statistics count every marked selector once
C29_Sets ==
  /\ extractor.criticalSelectors \cap extractor.nonCriticalSelectors = {}
  /\ \A selector \in LastMarked :
       /\ selector \in extractor.criticalSelectors <=> LastMarkedCritical(selector)
       /\ selector \in extractor.nonCriticalSelectors <=> ~LastMarkedCritical(selector)
  /\ extractor.criticalSelectors \cup extractor.nonCriticalSelectors = MarkedSinceReset
  /\ extractorGetStats(extractor).total = extractorGetStats(extractor).critical + extractorGetStats(extractor).nonCritical
  /\ extractorGetStats(extractor).total = Cardinality(MarkedSinceReset)
  /\ last.op = "getStats" => last.stats = extractorGetStats(extractor)

\* a call leaves the selectors it does not mark in the set they were in, unless it is reset,
\* which empties both sets
C29_OthersKeep ==
  IF last'.op = "reset"
  THEN extractor'.criticalSelectors = {} /\ extractor'.nonCriticalSelectors = {}
  ELSE \A selector \in (MarkedSinceReset \cup MarkSelectors) \ LastMarked' :
         /\ selector \in extractor'.criticalSelectors <=> selector \in extractor.criticalSelectors
         /\ selector \in extractor'.nonCriticalSelectors <=> selector \in extractor.nonCriticalSelectors

(***************************************************************************)
(* C29: after any sequence of markCritical, markNonCritical, autoDetect    *)
(* and reset calls no selector is in both mark sets, the latest mark of a  *)
(* selector decides the set it is in (a call puts the selectors it marks   *)
(* into the set it names and leaves every other selector where it was),   *)
(* and getStats().total = critical + nonCritical = the number of distinct    *)
(* selectors marked since the last reset.                                  *)
(***************************************************************************)
C29_MarksPartition == [](C29_Sets) /\ [][C29_OthersKeep]_vars

\* a selector marked critical by autoDetect has then been marked non-critical by hand: it is in
\* the non-critical set alone and is counted once
C29_Witness ==
  /\ last.op = "markNonCritical"
  /\ MarkOf(auto, last.selector) = "critical"
  /\ last.selector \in extractor.nonCriticalSelectors
  /\ extractorGetStats(extractor).total >= 1


(***************************************************************************)
(* The client runtime of the Next.js plugin: the probe of the CSS paths    *)
(***************************************************************************)
S_next_static_css == <<47, 95, 110, 101, 120, 116, 47, 115, 116, 97, 116, 105, 99, 47, 99, 115, 115, 47, 115, 105, 108, 107, 46, 99, 115, 115>>
S_root_css        == <<47, 115, 105, 108, 107, 46, 99, 115, 115>>
S_public_css      == <<47, 112, 117, 98, 108, 105, 99, 47, 115, 105, 108, 107, 46, 99, 115, 115>>

cssPaths == <<S_next_static_css, S_root_css, S_public_css>>

\* what a fetch(cssPath, { method: 'HEAD' }) settles with: the status of the response, or a
\* rejection, written as status 0
FetchOutcomes == {200, 204, 403, 404, 500, 0}

Rejected(outcome) == outcome = 0

\* Response.ok
ResponseOk(status) == status \in 200..299

\* the document and the closure of the module, before the module is evaluated
NewPage(existingLink, existingStyle) ==
  [existingLink |-> existingLink, existingStyle |-> existingStyle, evaluated |-> FALSE,
   cssInjected |-> FALSE, inflight |-> {}, probes |-> <<>>, links |-> <<>>, warnings |-> 0]

\* tryInjectCSS(index): past the last path it warns, otherwise it sends the HEAD request for
\* cssPaths[index] (index counts from 0)
tryInjectCSS(self, index) ==
  IF index >= Len(cssPaths)
  THEN [self EXCEPT !.warnings = @ + 1]
  ELSE [self EXCEPT !.inflight = @ \cup {index},
                    !.probes = Append(@, [index |-> index, settled |-> FALSE, outcome |-> 0])]

\* the callback of .then(response => ...)
OnResponse_noElse(self, index, status) ==
  IF ResponseOk(status) /\ ~self.cssInjected
  THEN tryInjectCSS([self EXCEPT !.cssInjected = TRUE, !.links = Append(@, cssPaths[index + 1])],
                    index + 1)
  ELSE IF ~ResponseOk(status) THEN tryInjectCSS(self, index + 1)
  ELSE self

OnResponse(self, index, status) ==
  IF ResponseOk(status) /\ ~self.cssInjected
  THEN [self EXCEPT !.cssInjected = TRUE, !.links = Append(@, cssPaths[index + 1])]
  ELSE IF ~ResponseOk(status) THEN tryInjectCSS(self, index + 1)
  ELSE self

\* the callback of .catch(() => ...)
OnError(self, index) == tryInjectCSS(self, index + 1)

\* the request for cssPaths[index] is settled with outcome
Settled(self, index, outcome) ==
  [self EXCEPT !.inflight = @ \ {index},
               !.probes = [n \in DOMAIN @ |-> IF @[n].index = index /\ ~@[n].settled
                                             THEN [index |-> index, settled |-> TRUE, outcome |-> outcome]
                                             ELSE @[n]]]

InitPage ==
  /\ RegistryInit
  /\ NamesIdle
  /\ ExtractorIdle
  /\ PureIdle
  /\ system = <<>>
  /\ scan = <<>>
  /\ vite = <<>>
  /\ \E existingLink \in BOOLEAN, existingStyle \in BOOLEAN :
       page = NewPage(existingLink, existingStyle)
  /\ last = [op |-> "none"]
  /\ nops = 0

PageUnchanged == UNCHANGED <<regVars, nameVars, critVars, pureVars, system, scan, vite, nops>>

\* the module is evaluated in the browser
EvaluateModule ==
  /\ ~page.evaluated
  /\ page' = IF ~page.existingLink /\ ~page.existingStyle
             THEN tryInjectCSS([page EXCEPT !.evaluated = TRUE], 0)
             ELSE [page EXCEPT !.evaluated = TRUE]
  /\ last' = [op |-> "evaluate"]
  /\ PageUnchanged

\* a request in flight is answered
FetchResponds(index, status) ==
  /\ index \in page.inflight
  /\ ~Rejected(status)
  /\ page' = OnResponse(Settled(page, index, status), index, status)
  /\ last' = [op |-> "response", index |-> index, status |-> status]
  /\ PageUnchanged

\* a request in flight fails
FetchRejects(index) ==
  /\ index \in page.inflight
  /\ page' = OnError(Settled(page, index, 0), index)
  /\ last' = [op |-> "rejected", index |-> index]
  /\ PageUnchanged

NextPage ==
  \/ EvaluateModule
  \/ \E index \in 0..(Len(cssPaths) - 1), status \in FetchOutcomes : FetchResponds(index, status)
  \/ \E index \in 0..(Len(cssPaths) - 1) : FetchRejects(index)

SpecPage == InitPage /\ [][NextPage]_vars

\* the probe failed: the response was not OK or the request was rejected
ProbeFailed(probe) == probe.settled /\ ~ResponseOk(probe.outcome)
ProbeSucceeded(probe) == probe.settled /\ ResponseOk(probe.outcome)

(***************************************************************************)
(* C30: the client runtime injects at most one data-silk link; it injects  *)
(* and probes nothing when a data-silk link or style element is there when *)
(* it starts; otherwise it probes the paths in order and one at a time,    *)
(* each probe after the first only when all before it failed; the link is  *)
(* injected for the first path whose probe succeeds and nothing is probed  *)
(* after it; the warning is given once, and only after all paths failed.   *)
(***************************************************************************)
C30_OneLinkProbesInOrder ==
  /\ Len(page.links) <= 1
  /\ (page.existingLink \/ page.existingStyle) =>
       page.links = <<>> /\ page.probes = <<>> /\ page.warnings = 0
  /\ Cardinality(page.inflight) <= 1
  /\ Len(page.probes) <= Len(cssPaths)
  /\ \A n \in 1..Len(page.probes) :
       /\ page.probes[n].index = n - 1
       /\ n < Len(page.probes) => ProbeFailed(page.probes[n])
       /\ ProbeSucceeded(page.probes[n]) => page.links = <<cssPaths[n]>>
  /\ page.links # <<>> =>
       page.probes # <<>> /\ ProbeSucceeded(page.probes[Len(page.probes)])
  /\ page.warnings <= 1
  /\ page.warnings = 1 <=>
       Len(page.probes) = Len(cssPaths) /\ \A n \in 1..Len(page.probes) : ProbeFailed(page.probes[n])

\* the first path answered 404, the second was rejected and the third answered 200: the link
\* of the third path is in the document and nothing else was done
C30_Witness ==
  /\ Len(page.probes) = 3
  /\ page.probes[1].outcome = 404
  /\ page.probes[2].outcome = 0
  /\ page.links = <<S_public_css>>
  /\ page.warnings = 0

====
